---- MODULE Spec2Model ----
(***************************************************************************)
(* Model of the lungfung_sso permission engine: permission qualification   *)
(* (Permission.format_permission), permission aggregation                  *)
(* (SSOPermission._collect_module_permissions), the cache facade           *)
(* (lungfung_sso/cache.py) and the authorization gate (check_permission,   *)
(* SSOPermission.has_permission, ModulePermissionRequiredMixin), token     *)
(* resolution (SSOAuthentication, JWTAuthenticationMiddleware), the        *)
(* process-wide HTTP session (get_sso_session) and the request context of  *)
(* the logging middleware (RequestLoggingMiddleware).                      *)
(*                                                                         *)
(* Python strings are TLA+ strings; f-string concatenation is \o and the   *)
(* str methods endswith / startswith / "in" are computed on the characters.*)
(* Python dicts are records (a missing key is a field outside DOMAIN),     *)
(* Python lists are sequences, Python sets are sets.                       *)
(***************************************************************************)
EXTENDS Integers, Sequences, FiniteSets, TLC

VARIABLES
    call,     \* the pure function applied and its arguments (SpecAgg)
    ret,      \* <<result>> once the function has been applied, <<>> before
    store,    \* the backing cache store: cache key -> stored value or None
    chk,      \* <<record>> of the last call of an authorization-gate entry point
    backend,  \* what _get_cache() returns in this process: "django" or "mock"
    fac,      \* <<record>> of the last call of a cache facade function (SpecCache)
    auth,     \* <<record>> of the last token resolution (SpecAuth)
    wk,       \* the workers (threads) of the process and what each is executing
    sso_session,       \* middleware.py's module global: <<>> (None) or <<session>>
    sessions,          \* the session objects created so far in the process
    _request_context   \* logging_service.py's thread-local: per worker, its data

vars == <<call, ret, store, chk, backend, fac, auth, wk,
          sso_session, sessions, _request_context>>

None == "None"

\* ------------------------------------------------------------------------
\* Bounds of the model
\* ------------------------------------------------------------------------
\* longest list of module entries in a payload
MaxEntries == 2
\* longest list of permission objects in one module entry
MaxPerms == 2

\* ------------------------------------------------------------------------
\* Python string and dict primitives
\* ------------------------------------------------------------------------
\* str.endswith
EndsWith(s, suffix) ==
    /\ Len(s) >= Len(suffix)
    /\ SubSeq(s, Len(s) - Len(suffix) + 1, Len(s)) = suffix

\* str.startswith
StartsWith(s, prefix) ==
    /\ Len(s) >= Len(prefix)
    /\ SubSeq(s, 1, Len(prefix)) = prefix

\* sub in s
Contains(s, sub) ==
    \E i \in 1..(Len(s) - Len(sub) + 1) : SubSeq(s, i, i + Len(sub) - 1) = sub

\* dict.get(key, default)
DictGet(d, key, default) == IF key \in DOMAIN d THEN d[key] ELSE default

\* the empty dict {}
EmptyDict == [k \in {} |-> None]

\* ------------------------------------------------------------------------
\* Configuration (Django settings SSO_MODULES / SSO_PERMISSIONS)
\* ------------------------------------------------------------------------
\* settings.SSO_MODULES['PARENT_MODULE']
get_parent_module == "SYS"

\* settings.SSO_MODULES['CHILD_MODULES'].values()
get_child_modules == {"A", "B"}

\* settings.SSO_PERMISSIONS['PARENT_PERMISSIONS'] (the source's defaults)
get_parent_permissions ==
    [VIEW_SYSTEM |-> "view_default_system", MANAGE_SYSTEM |-> "manage_default_system"]

\* settings.SSO_PERMISSIONS['CHILD_PERMISSION_TYPES'] (the source's defaults)
get_child_permission_types ==
    [VIEW |-> "view", ADD |-> "add", CHANGE |-> "change", DELETE |-> "delete"]

\* ------------------------------------------------------------------------
\* Permission.format_permission
\* ------------------------------------------------------------------------
format_permission_noSuffix(module, action) ==
    IF module = get_parent_module
    THEN action
    ELSE module \o "." \o action

format_permission_noParent(module, action) ==
    IF EndsWith(action, "_" \o module) \/ Contains(action, "_" \o module \o "_")
    THEN module \o "." \o action
    ELSE module \o "." \o action \o "_" \o module

format_permission(module, action) ==
    IF module = get_parent_module
    THEN action
    ELSE IF EndsWith(action, "_" \o module) \/ Contains(action, "_" \o module \o "_")
         THEN module \o "." \o action
         ELSE module \o "." \o action \o "_" \o module

\* ------------------------------------------------------------------------
\* SSOPermission._get_parent_module_permissions
\* A result is [raised |-> BOOLEAN, value |-> ...]; raised models an
\* exception leaving the function (KeyError of module_data['code']).
\* ------------------------------------------------------------------------
Returned(v) == [raised |-> FALSE, value |-> v]
Raised == [raised |-> TRUE, value |-> None]

\* {perm['codename'] for perm in module_data.get('permissions', [])}
Codenames(module_data) ==
    LET perms == DictGet(module_data, "permissions", <<>>)
    IN  {perms[i].codename : i \in 1..Len(perms)}

RECURSIVE ParentScan(_, _)
ParentScan(entries, i) ==
    IF i > Len(entries) THEN Returned({})
    ELSE IF "code" \notin DOMAIN entries[i] THEN Raised
    ELSE IF entries[i].code = get_parent_module THEN Returned(Codenames(entries[i]))
    ELSE ParentScan(entries, i + 1)

\* the scan without its break: the last parent-module entry wins
RECURSIVE ParentScanNoBreak(_, _, _)
ParentScanNoBreak(entries, i, found) ==
    IF i > Len(entries) THEN Returned(found)
    ELSE IF "code" \notin DOMAIN entries[i] THEN Raised
    ELSE IF entries[i].code = get_parent_module
         THEN ParentScanNoBreak(entries, i + 1, Codenames(entries[i]))
         ELSE ParentScanNoBreak(entries, i + 1, found)

_get_parent_module_permissions_noBreak(permissions_data) ==
    ParentScanNoBreak(DictGet(permissions_data, "permissions", <<>>), 1, {})

_get_parent_module_permissions(permissions_data) ==
    ParentScan(DictGet(permissions_data, "permissions", <<>>), 1)

\* ------------------------------------------------------------------------
\* SSOPermission._collect_module_permissions
\* ------------------------------------------------------------------------
\* the loop over the payload's entries that adds "{module_code}.{codename}"
ChildPermissions(entries) ==
    UNION { IF entries[i].code = get_parent_module
            THEN {}
            ELSE {entries[i].code \o "." \o c : c \in Codenames(entries[i])}
          : i \in 1..Len(entries) }

Range(f) == {f[k] : k \in DOMAIN f}

\* the aggregation whose manage-system branch does not return: it goes on to
\* the view-system branch and to the loop over the payload's entries
_collect_module_permissions_noReturn(permissions_data) ==
    LET entries == DictGet(permissions_data, "permissions", <<>>)
        parent  == _get_parent_module_permissions(permissions_data)
    IN  IF parent.raised THEN Raised
        ELSE
        LET parent_permissions == parent.value
            has_manage_system  ==
                DictGet(get_parent_permissions, "MANAGE_SYSTEM", "manage_default_system")
                    \in parent_permissions
            has_view_system    ==
                DictGet(get_parent_permissions, "VIEW_SYSTEM", "view_default_system")
                    \in parent_permissions
            view_perm          == DictGet(get_child_permission_types, "VIEW", "view")
            manage_all         ==
                IF has_manage_system
                THEN {format_permission(m, t) :
                        m \in get_child_modules, t \in Range(get_child_permission_types)}
                ELSE {}
            view_all           ==
                IF has_view_system
                THEN {format_permission(m, view_perm) : m \in get_child_modules}
                ELSE {}
        IN  IF \E i \in 1..Len(entries) : "code" \notin DOMAIN entries[i]
            THEN Raised
            ELSE Returned(parent_permissions \cup manage_all \cup view_all
                          \cup ChildPermissions(entries))

\* the aggregation whose view-system branch returns as the manage-system
\* branch does: the entries the payload lists under child modules are skipped
_collect_module_permissions_viewReturns(permissions_data) ==
    LET entries == DictGet(permissions_data, "permissions", <<>>)
        parent  == _get_parent_module_permissions(permissions_data)
    IN  IF parent.raised THEN Raised
        ELSE
        LET parent_permissions == parent.value
            has_manage_system  ==
                DictGet(get_parent_permissions, "MANAGE_SYSTEM", "manage_default_system")
                    \in parent_permissions
            has_view_system    ==
                DictGet(get_parent_permissions, "VIEW_SYSTEM", "view_default_system")
                    \in parent_permissions
            view_perm          == DictGet(get_child_permission_types, "VIEW", "view")
        IN  IF has_manage_system
            THEN Returned(parent_permissions \cup
                          {format_permission(m, t) :
                             m \in get_child_modules,
                             t \in Range(get_child_permission_types)})
            ELSE IF has_view_system
            THEN Returned(parent_permissions \cup
                          {format_permission(m, view_perm) : m \in get_child_modules})
            ELSE IF \E i \in 1..Len(entries) : "code" \notin DOMAIN entries[i]
                 THEN Raised
                 ELSE Returned(parent_permissions \cup ChildPermissions(entries))

_collect_module_permissions(permissions_data) ==
    LET entries == DictGet(permissions_data, "permissions", <<>>)
        parent  == _get_parent_module_permissions(permissions_data)
    IN  IF parent.raised THEN Raised
        ELSE
        LET parent_permissions == parent.value
            parent_perms       == get_parent_permissions
            has_manage_system  ==
                DictGet(parent_perms, "MANAGE_SYSTEM", "manage_default_system")
                    \in parent_permissions
            has_view_system    ==
                DictGet(parent_perms, "VIEW_SYSTEM", "view_default_system")
                    \in parent_permissions
            view_perm          == DictGet(get_child_permission_types, "VIEW", "view")
            view_all           ==
                IF has_view_system
                THEN {format_permission(m, view_perm) : m \in get_child_modules}
                ELSE {}
        IN  IF has_manage_system
            THEN Returned(parent_permissions \cup
                          {format_permission(m, t) :
                             m \in get_child_modules,
                             t \in Range(get_child_permission_types)})
            ELSE IF \E i \in 1..Len(entries) : "code" \notin DOMAIN entries[i]
                 THEN Raised
                 ELSE Returned(parent_permissions \cup view_all
                               \cup ChildPermissions(entries))

\* ------------------------------------------------------------------------
\* Cache facade (lungfung_sso/cache.py)
\* An optional value (Python None or a value) is <<>> or <<value>>.
\* ------------------------------------------------------------------------
CACHE_KEY_PREFIX == "sso_"
CACHE_TYPE_TOKEN == "token"
CACHE_TYPE_PERMISSIONS == "permissions"
CACHE_TYPE_USER == "user"

TOKEN_CACHE_TTL == 300
USER_CACHE_TTL == 300
\* settings.PERMISSIONS_CACHE_TIMEOUT, by default USER_CACHE_TTL
PERMISSIONS_CACHE_TTL == USER_CACHE_TTL

\* settings.USER_CACHE_TIMEOUT as read by permissions.py
USER_CACHE_TIMEOUT == USER_CACHE_TTL

get_cache_key(key_type, identifier) ==
    CACHE_KEY_PREFIX \o key_type \o "_" \o identifier

get_token_cache_key(token_value) == get_cache_key(CACHE_TYPE_TOKEN, token_value)

get_permissions_cache_key(user_id) == get_cache_key(CACHE_TYPE_PERMISSIONS, user_id)

get_user_cache_key(user_id) == get_cache_key(CACHE_TYPE_USER, user_id)

\* _get_cache(): the Django cache, or a MockCache when Django cannot be
\* imported. A cache is [kind, ok]: ok tells whether the Django backend
\* answers this call (its get, set and delete raise when it does not).
DjangoCache(ok) == [kind |-> "django", ok |-> ok]

MockCache == [kind |-> "mock", ok |-> TRUE]

_get_cache(kind, ok) == IF kind = "django" THEN DjangoCache(ok) ELSE MockCache

\* cache.get(key): MockCache.get returns its default, None
CacheGet(st, key, cache) ==
    [ raised |-> ~cache.ok,
      value  |-> IF cache.kind = "mock" \/ st[key] = <<>>
                 THEN <<>>
                 ELSE <<st[key][1].value>> ]

\* cache.set(key, value, timeout): MockCache.set does nothing
CacheSet(st, key, value, timeout, cache) ==
    [ raised |-> ~cache.ok,
      store  |-> IF cache.kind = "mock" \/ ~cache.ok
                 THEN st
                 ELSE [st EXCEPT ![key] = <<[value |-> value, timeout |-> timeout]>>] ]

\* cache.delete(key): MockCache.delete does nothing
CacheDelete(st, key, cache) ==
    [ raised |-> ~cache.ok,
      store  |-> IF cache.kind = "mock" \/ ~cache.ok
                 THEN st
                 ELSE [st EXCEPT ![key] = <<>>] ]

\* cache.py binds the name settings only inside _get_settings_value (a local
\* import); the module's globals have no settings, so evaluating the name in
\* another function of the module raises NameError.
settings_in_cache_globals == FALSE

\* set_token_verification_cache: timeout or TOKEN_CACHE_TTL (timeout 0 stands
\* for the falsy timeouts None and 0); a failure of the backing store's set
\* is caught and reported as False.
set_token_verification_cache_noTry(st, token_value, user_obj, timeout, cache) ==
    LET cache_key     == get_token_cache_key(token_value)
        cache_timeout == IF timeout # 0 THEN timeout ELSE TOKEN_CACHE_TTL
        done          == CacheSet(st, cache_key, user_obj, cache_timeout, cache)
    IN  [ raised |-> done.raised, ok |-> TRUE, store |-> done.store ]

set_token_verification_cache(st, token_value, user_obj, timeout, cache) ==
    LET cache_key     == get_token_cache_key(token_value)
        cache_timeout == IF timeout # 0 THEN timeout ELSE TOKEN_CACHE_TTL
        done          == CacheSet(st, cache_key, user_obj, cache_timeout, cache)
    IN  [ raised |-> FALSE, ok |-> ~done.raised, store |-> done.store ]

\* get_token_verification_cache: the backing store's get runs first, then the
\* log-level line evaluates settings.
get_token_verification_cache(st, token_value, cache) ==
    LET cache_key == get_token_cache_key(token_value)
        got       == CacheGet(st, cache_key, cache)
    IN  [ read   |-> {cache_key},
          raised |-> got.raised \/ ~settings_in_cache_globals,
          value  |-> got.value ]

\* set_user_permissions_cache: timeout or PERMISSIONS_CACHE_TTL; a failure of
\* the backing store's set is caught and reported as False.
set_user_permissions_cache(st, user_id, permissions_data, timeout, cache) ==
    LET cache_key     == get_permissions_cache_key(user_id)
        cache_timeout == IF timeout # 0 THEN timeout ELSE PERMISSIONS_CACHE_TTL
        done          == CacheSet(st, cache_key, permissions_data, cache_timeout, cache)
    IN  [ raised |-> FALSE, ok |-> ~done.raised, store |-> done.store ]

\* get_user_permissions_cache: the backing store's get runs first, then the
\* log-level line evaluates settings.
get_user_permissions_cache(st, user_id, cache) ==
    LET cache_key == get_permissions_cache_key(user_id)
        got       == CacheGet(st, cache_key, cache)
    IN  [ read   |-> {cache_key},
          raised |-> got.raised \/ ~settings_in_cache_globals,
          value  |-> got.value ]

\* invalidate_user_cache: deletes the user-data key, then the permissions key;
\* a failure of the backing store's delete reaches the caller
invalidate_user_cache(st, user_id, cache) ==
    LET first  == CacheDelete(st, get_user_cache_key(user_id), cache)
        second == CacheDelete(first.store, get_permissions_cache_key(user_id), cache)
    IN  IF first.raised THEN [raised |-> TRUE, store |-> first.store]
        ELSE [raised |-> second.raised, store |-> second.store]

\* invalidate_token_cache: deletes the token key
invalidate_token_cache(st, token_value, cache) ==
    CacheDelete(st, get_token_cache_key(token_value), cache)

\* ------------------------------------------------------------------------
\* Python truthiness at the places the gate tests it
\* ------------------------------------------------------------------------
\* a str or None
FalsyStr(s) == s = None \/ s = ""

\* an optional dict: None and {} are falsy
TruthyData(opt) == opt # <<>> /\ DOMAIN opt[1] # {}

\* the user argument: None (absent) is the record without fields
NoUser == [absent |-> TRUE]
IsNoUser(user) == "absent" \in DOMAIN user

\* hasattr(user, name) and user.name
HasTruthyAttr(user, name) == name \in DOMAIN user /\ ~FalsyStr(user[name])

\* auth_header.split(' ')[1] for a header that starts with 'Bearer '
SplitSecond(auth_header) ==
    LET rest   == SubSeq(auth_header, 8, Len(auth_header))
        spaces == {i \in 1..Len(rest) : SubSeq(rest, i, i) = " "}
        stop   == IF spaces = {} THEN Len(rest) + 1
                  ELSE CHOOSE i \in spaces : \A j \in spaces : i <= j
    IN  SubSeq(rest, 1, stop - 1)

\* ------------------------------------------------------------------------
\* SSOPermission._get_user_permissions
\* env = [backend_ok, remote]: whether the backing store's get and set
\* succeed, and the remote's answer to a permissions request:
\* [status |-> 200, body |-> payload], [status |-> 500] or [status |-> 0]
\* for a transport error (requests raises).
\* ------------------------------------------------------------------------
SelectToken(request) ==
    IF HasTruthyAttr(request.user, "token")
    THEN request.user.token
    ELSE IF ~FalsyStr(DictGet(request.headers, "Authorization", None))
         THEN IF StartsWith(request.headers.Authorization, "Bearer ")
              THEN SplitSecond(request.headers.Authorization)
              ELSE request.headers.Authorization
         ELSE IF "auth_access_token" \in DOMAIN request.COOKIES
              THEN request.COOKIES.auth_access_token
              ELSE None

\* the result of a gate function: the value it returns or that it raised,
\* the cache keys read, the remote requests sent, and the store afterwards
Outcome(raised, value, reads, calls, st) ==
    [raised |-> raised, value |-> value, reads |-> reads, calls |-> calls, store |-> st]

_get_user_permissions(request, st, env) ==
    IF ~HasTruthyAttr(request.user, "id")
    THEN Outcome(FALSE, <<>>, {}, <<>>, st)
    ELSE
    LET cached == get_user_permissions_cache(st, request.user.id, DjangoCache(env.backend_ok))
    IN  IF cached.raised THEN Outcome(TRUE, <<>>, cached.read, <<>>, st)
        ELSE IF TruthyData(cached.value)
        THEN Outcome(FALSE, cached.value, cached.read, <<>>, st)
        ELSE
        LET auth_token == SelectToken(request)
            sent       == <<[user_id |-> request.user.id, token |-> auth_token]>>
        IN  IF FalsyStr(auth_token)
            THEN Outcome(FALSE, <<>>, cached.read, <<>>, st)
            ELSE IF env.remote.status = 200
            THEN Outcome(FALSE, <<env.remote.body>>, cached.read, sent,
                         set_user_permissions_cache(st, request.user.id, env.remote.body,
                                                    USER_CACHE_TIMEOUT,
                                                    DjangoCache(env.backend_ok)).store)
            ELSE Outcome(FALSE, <<>>, cached.read, sent, st)

\* ------------------------------------------------------------------------
\* Authorization gate: check_permission, SSOPermission.has_permission,
\* ModulePermissionRequiredMixin.check_permissions.
\* The value of an outcome is "True" or "False"; an outcome with raised set
\* is an exception that leaves the entry point.
\* ------------------------------------------------------------------------
\* all(perm in all_permissions for perm in required_permissions)
AllIn(required_permissions, all_permissions) ==
    \A i \in 1..Len(required_permissions) : required_permissions[i] \in all_permissions

\* for perm in permissions: format_permission(module, perm) in all_permissions
AllFormattedIn(module, permissions, all_permissions) ==
    \A i \in 1..Len(permissions) : format_permission(module, permissions[i]) \in all_permissions

Bool(b) == IF b THEN "True" ELSE "False"

\* check_permission.MockRequest
MockRequest(user) ==
    [ user    |-> user,
      headers |-> EmptyDict,
      COOKIES |-> IF HasTruthyAttr(user, "token")
                  THEN [auth_access_token |-> user.token]
                  ELSE EmptyDict ]

\* permissions is [kind |-> "str", val |-> s] or [kind |-> "list", val |-> seq]
AsList(permissions) ==
    IF permissions.kind = "str" THEN <<permissions.val>> ELSE permissions.val

\* the try block of check_permission; any exception in it yields False
check_permission_try(user, module, permissions, st, env) ==
    LET perms  == AsList(permissions)
        cached == get_user_permissions_cache(st, user.id, DjangoCache(env.backend_ok))
    IN  IF cached.raised
        THEN Outcome(FALSE, "False", cached.read, <<>>, st)
        ELSE
        LET fetched == IF TruthyData(cached.value)
                       THEN Outcome(FALSE, cached.value, cached.read, <<>>, st)
                       ELSE _get_user_permissions(MockRequest(user), st, env)
            reads   == cached.read \cup fetched.reads
        IN  IF fetched.raised \/ ~TruthyData(fetched.value)
            THEN Outcome(FALSE, "False", reads, fetched.calls, fetched.store)
            ELSE
            LET collected == _collect_module_permissions(fetched.value[1])
            IN  IF collected.raised
                THEN Outcome(FALSE, "False", reads, fetched.calls, fetched.store)
                ELSE Outcome(FALSE, Bool(AllFormattedIn(module, perms, collected.value)),
                             reads, fetched.calls, fetched.store)

check_permission_noSuperuser(user, module, permissions, st, env) ==
    IF IsNoUser(user) \/ ~user.is_authenticated
    THEN Outcome(FALSE, "False", {}, <<>>, st)
    ELSE check_permission_try(user, module, permissions, st, env)

check_permission(user, module, permissions, st, env) ==
    IF IsNoUser(user) \/ ~user.is_authenticated
    THEN Outcome(FALSE, "False", {}, <<>>, st)
    ELSE IF "is_superuser" \in DOMAIN user /\ user.is_superuser
    THEN Outcome(FALSE, "True", {}, <<>>, st)
    ELSE check_permission_try(user, module, permissions, st, env)

\* view is [required_module, required_permissions]
has_permission(request, view, st, env) ==
    IF IsNoUser(request.user) \/ ~request.user.is_authenticated
    THEN Outcome(FALSE, "False", {}, <<>>, st)
    ELSE IF "is_superuser" \in DOMAIN request.user /\ request.user.is_superuser
    THEN Outcome(FALSE, "True", {}, <<>>, st)
    ELSE IF view.required_permissions = <<>>
    THEN Outcome(FALSE, "True", {}, <<>>, st)
    ELSE
    LET fetched == _get_user_permissions(request, st, env)
    IN  IF fetched.raised
        THEN Outcome(TRUE, None, fetched.reads, fetched.calls, fetched.store)
        ELSE IF ~TruthyData(fetched.value)
        THEN Outcome(FALSE, "False", fetched.reads, fetched.calls, fetched.store)
        ELSE
        LET collected == _collect_module_permissions(fetched.value[1])
        IN  IF collected.raised
            THEN Outcome(TRUE, None, fetched.reads, fetched.calls, fetched.store)
            ELSE Outcome(FALSE, Bool(AllIn(view.required_permissions, collected.value)),
                         fetched.reads, fetched.calls, fetched.store)

check_permissions(request, view, st, env) ==
    IF IsNoUser(request.user) \/ ~request.user.is_authenticated
    THEN Outcome(FALSE, "False", {}, <<>>, st)
    ELSE IF "is_superuser" \in DOMAIN request.user /\ request.user.is_superuser
    THEN Outcome(FALSE, "True", {}, <<>>, st)
    ELSE IF view.required_permissions = <<>>
    THEN Outcome(FALSE, "True", {}, <<>>, st)
    ELSE check_permission(request.user, view.required_module,
                          [kind |-> "list", val |-> view.required_permissions], st, env)

\* ------------------------------------------------------------------------
\* Inputs of the pure functions
\* ------------------------------------------------------------------------
\* module codes that occur in calls and payloads
ModuleCodes == {get_parent_module} \cup get_child_modules

\* codenames the payloads list under the parent module
ParentCodenames == {"manage_default_system", "view_default_system", "report"}

\* codenames the payloads list under a child module
ChildCodenames == {"view", "view_A"}

\* actions passed to format_permission
CodenamePool == ParentCodenames \cup ChildCodenames \cup {"x_A_y", "add", "A", "_B"}

\* lists of permission objects {codename: c}
PermLists(codenames) ==
    UNION { [1..n -> {[codename |-> c] : c \in codenames}] : n \in 0..MaxPerms }

\* module entries {code, permissions}; one entry lacks the 'code' key
ModuleEntries ==
    [code : {get_parent_module}, permissions : PermLists(ParentCodenames)]
    \cup [code : get_child_modules, permissions : PermLists(ChildCodenames)]
    \cup {[permissions |-> <<>>]}

\* payloads {permissions: [...]}
Payloads ==
    { [permissions |-> es] : es \in UNION { [1..n -> ModuleEntries] : n \in 0..MaxEntries } }

FormatCalls ==
    [op : {"format_permission"}, module : ModuleCodes, action : CodenamePool]

CollectCalls ==
    [op : {"_collect_module_permissions"}, permissions_data : Payloads]

\* ------------------------------------------------------------------------
\* Inputs of the gate and of the cache facade
\* ------------------------------------------------------------------------
UserIds == {"1", "2"}

\* User(user_data): the identity built from the remote's user data; token is
\* user_data.get('token', '') and is_authenticated is always True
User(user_data) ==
    [ id               |-> DictGet(user_data, "id", None),
      is_authenticated |-> TRUE,
      is_superuser     |-> DictGet(user_data, "is_superuser", FALSE),
      token            |-> DictGet(user_data, "token", "") ]

\* identities: the absent user, an anonymous user, superusers, members with
\* and without id and token, and a Django-style user without token attribute
Users ==
    { NoUser,
      [id |-> None, is_authenticated |-> FALSE, is_superuser |-> FALSE, token |-> ""],
      [id |-> "1",  is_authenticated |-> TRUE,  is_superuser |-> TRUE,  token |-> "tk"],
      [id |-> None, is_authenticated |-> TRUE,  is_superuser |-> TRUE,  token |-> ""],
      [id |-> "1",  is_authenticated |-> TRUE,  is_superuser |-> FALSE, token |-> "tk"],
      [id |-> "1",  is_authenticated |-> TRUE,  is_superuser |-> FALSE, token |-> ""],
      [id |-> None, is_authenticated |-> TRUE,  is_superuser |-> FALSE, token |-> "tk"],
      [id |-> "2",  is_authenticated |-> TRUE,  is_superuser |-> FALSE] }

\* request.headers and request.COOKIES
RequestContexts ==
    { [headers |-> EmptyDict,                      COOKIES |-> EmptyDict],
      [headers |-> [Authorization |-> "Bearer hd"], COOKIES |-> EmptyDict],
      [headers |-> [Authorization |-> "hd"],        COOKIES |-> [auth_access_token |-> "ck"]],
      [headers |-> [Authorization |-> "Bearer hd"], COOKIES |-> [auth_access_token |-> "ck"]],
      [headers |-> EmptyDict,                      COOKIES |-> [auth_access_token |-> "ck"]] }

RequiredLists == {<<>>, <<"view">>, <<"A.view_A">>, <<"view", "x_A_y">>}

PermissionArgs ==
    [kind : {"list"}, val : {<<>>, <<"view">>, <<"view", "x_A_y">>}]
    \cup {[kind |-> "str", val |-> "view"]}

\* the payload the embedding application caches
CachedPayloads ==
    { [permissions |-> <<[code |-> "A", permissions |-> <<[codename |-> "view_A"]>>]>>] }

\* bodies of the remote's 200 answers: a payload, and one whose module entry
\* lacks 'code'
RemoteBodies ==
    CachedPayloads \cup { [permissions |-> <<[permissions |-> <<>>]>>] }

RemoteAnswers ==
    [status : {200}, body : RemoteBodies] \cup [status : {500, 0}, body : {EmptyDict}]

\* backend_ok: whether the backing store answers (its get and set raise when
\* it does not)
Envs == [backend_ok : BOOLEAN, remote : RemoteAnswers]

\* tokens that requests carry and that the token cache is keyed by
Tokens == {"ck", "hd"}

StoreKeys ==
    {get_permissions_cache_key(u) : u \in UserIds \cup {None}}
    \cup {get_user_cache_key(u) : u \in UserIds \cup {None}}
    \cup {get_token_cache_key(t) : t \in Tokens}

\* ------------------------------------------------------------------------
\* Spec: the gate's entry points and the cache facade over the shared store
\* ------------------------------------------------------------------------
Init ==
    /\ call = [op |-> "none"]
    /\ ret = <<>>
    /\ store = [k \in StoreKeys |-> <<>>]
    /\ chk = <<>>
    /\ backend = "django"
    /\ fac = <<>>
    /\ auth = <<>>
    /\ wk = <<>>
    /\ sso_session = <<>>
    /\ sessions = {}
    /\ _request_context = <<>>

\* A caller invokes one entry point of the gate: chk keeps the arguments, the
\* request context and the environment the call will meet.
\* check_permission receives no request; has_permission and the mixin
\* receive the request and the view's required_module / required_permissions.
GateCalls ==
    [ entry : {"check_permission"}, user : Users, ctx : {EmptyDict},
      module : {"A", get_parent_module}, permissions : PermissionArgs, env : Envs ]
    \cup
    [ entry : {"has_permission", "check_permissions"}, user : Users,
      ctx : RequestContexts, module : {"A"},
      permissions : [kind : {"list"}, val : RequiredLists], env : Envs ]

Call ==
    /\ chk = <<>>
    /\ \E c \in GateCalls :
         chk' = <<[ phase |-> "called", args |-> c, cached |-> <<>>,
                    result |-> "pending", reads |-> {}, calls |-> <<>>,
                    wrote |-> FALSE, stored |-> <<>> ]>>
    /\ UNCHANGED <<sso_session, sessions, _request_context, call, ret, store, backend, fac, auth, wk>>

\* the handler ran: its result ("True", "False" or "raise"), the cache keys
\* it read, the remote requests it sent, whether it changed the store, and
\* the permissions-cache entry of the user when it started (cached) and when
\* it ended (stored)
Finished(o) ==
    [ chk[1] EXCEPT
        !.phase  = "returned",
        !.cached = IF IsNoUser(chk[1].args.user) THEN <<>>
                   ELSE store[get_permissions_cache_key(chk[1].args.user.id)],
        !.result = IF o.raised THEN "raise" ELSE o.value,
        !.reads  = o.reads,
        !.calls  = o.calls,
        !.wrote  = (o.store # store),
        !.stored = IF IsNoUser(chk[1].args.user) THEN <<>>
                   ELSE o.store[get_permissions_cache_key(chk[1].args.user.id)] ]

RequestOf(c) == [user |-> c.user, headers |-> c.ctx.headers, COOKIES |-> c.ctx.COOKIES]

ViewOf(c) == [required_module |-> c.module, required_permissions |-> c.permissions.val]

CheckPermission ==
    /\ chk # <<>>
    /\ chk[1].phase = "called"
    /\ chk[1].args.entry = "check_permission"
    /\ LET c == chk[1].args
           o == check_permission(c.user, c.module, c.permissions, store, c.env)
       IN  /\ store' = o.store
           /\ chk' = <<Finished(o)>>
    /\ UNCHANGED <<sso_session, sessions, _request_context, call, ret, backend, fac, auth, wk>>

HasPermission ==
    /\ chk # <<>>
    /\ chk[1].phase = "called"
    /\ chk[1].args.entry = "has_permission"
    /\ LET c == chk[1].args
           o == has_permission(RequestOf(c), ViewOf(c), store, c.env)
       IN  /\ store' = o.store
           /\ chk' = <<Finished(o)>>
    /\ UNCHANGED <<sso_session, sessions, _request_context, call, ret, backend, fac, auth, wk>>

CheckPermissions ==
    /\ chk # <<>>
    /\ chk[1].phase = "called"
    /\ chk[1].args.entry = "check_permissions"
    /\ LET c == chk[1].args
           o == check_permissions(RequestOf(c), ViewOf(c), store, c.env)
       IN  /\ store' = o.store
           /\ chk' = <<Finished(o)>>
    /\ UNCHANGED <<sso_session, sessions, _request_context, call, ret, backend, fac, auth, wk>>

\* the caller has taken the result
Return ==
    /\ chk # <<>>
    /\ chk[1].phase = "returned"
    /\ chk' = <<>>
    /\ UNCHANGED <<sso_session, sessions, _request_context, call, ret, store, backend, fac, auth, wk>>

SetUserPermissionsCache ==
    \E user_id \in UserIds, permissions_data \in CachedPayloads, set_ok \in BOOLEAN :
        /\ store' = set_user_permissions_cache(store, user_id, permissions_data,
                                               0, DjangoCache(set_ok)).store
        /\ UNCHANGED <<sso_session, sessions, _request_context, call, ret, chk, backend, fac, auth, wk>>

InvalidateUserCache ==
    \E user_id \in UserIds, delete_ok \in BOOLEAN :
        /\ store' = invalidate_user_cache(store, user_id, DjangoCache(delete_ok)).store
        /\ UNCHANGED <<sso_session, sessions, _request_context, call, ret, chk, backend, fac, auth, wk>>

Next ==
    \/ Call
    \/ Return
    \/ CheckPermission
    \/ HasPermission
    \/ CheckPermissions
    \/ SetUserPermissionsCache
    \/ InvalidateUserCache

Spec == Init /\ [][Next]_vars

\* ------------------------------------------------------------------------
\* Token resolution: SSOAuthentication (authentication.py) and
\* JWTAuthenticationMiddleware (middleware.py)
\* env = [backend_ok, verify, remote, login_route]: verify is the remote's
\* answer to a token verification, [status, body] with status 0 for a
\* transport error (requests raises RequestException); remote is its answer
\* to a permissions request; login_route tells whether reverse('portal:login')
\* resolves.
\* ------------------------------------------------------------------------
\* str.strip()
RECURSIVE Strip(_)
Strip(s) ==
    IF Len(s) > 0 /\ SubSeq(s, 1, 1) = " " THEN Strip(SubSeq(s, 2, Len(s)))
    ELSE IF Len(s) > 0 /\ SubSeq(s, Len(s), Len(s)) = " "
         THEN Strip(SubSeq(s, 1, Len(s) - 1))
         ELSE s

\* token.split(' ')[1]
SplitIndex1(token) ==
    LET first  == CHOOSE i \in 1..Len(token) :
                    /\ SubSeq(token, i, i) = " "
                    /\ \A j \in 1..(i - 1) : SubSeq(token, j, j) # " "
        rest   == SubSeq(token, first + 1, Len(token))
        spaces == {i \in 1..Len(rest) : SubSeq(rest, i, i) = " "}
        stop   == IF spaces = {} THEN Len(rest) + 1
                  ELSE CHOOSE i \in spaces : \A j \in spaces : i <= j
    IN  SubSeq(rest, 1, stop - 1)

\* the exception classes of exceptions.py: TokenExpiredError is a TokenError
IsTokenError(exc) == exc \in {"TokenError", "TokenExpiredError"}

\* settings.SSO_MAX_RETRIES (default 0): retries of the middleware's session
\* adapter after a transport error
SSO_MAX_RETRIES == 0

\* settings.DEBUG (Django's default)
DEBUG == FALSE

\* settings.SSO_AUTH_EXEMPT_PATTERNS (the source's default)
auth_exempt_patterns == {"/api/callback/", "/api/webhooks/"}

\* the result of a resolution step: the identity returned (<<user>>) or the
\* exception raised (exc, message), the remote requests sent and the store
Resolved(user, calls, st) ==
    [raised |-> FALSE, user |-> user, exc |-> None, message |-> None,
     calls |-> calls, store |-> st]

Failed(exc, message, calls, st) ==
    [raised |-> TRUE, user |-> <<>>, exc |-> exc, message |-> message,
     calls |-> calls, store |-> st]

\* SSOAuthentication._get_token_from_request: request.META['HTTP_AUTHORIZATION']
\* is the Authorization header
_get_token_from_request(request) ==
    LET auth_header == DictGet(request.headers, "Authorization", "")
        token       == DictGet(request.COOKIES, "auth_access_token", None)
    IN  IF StartsWith(auth_header, "Bearer ")
        THEN Strip(SubSeq(auth_header, 8, Len(auth_header)))
        ELSE IF ~FalsyStr(token) THEN token ELSE None

\* the exception a failing cache lookup raises: the backing store's, or the
\* NameError of the log-level line
LookupError(env) == IF env.backend_ok THEN "NameError" ELSE "CacheError"

\* SSOAuthentication._get_user_from_token
_get_user_from_token(token, st, env) ==
    LET cached == get_token_verification_cache(st, token, DjangoCache(env.backend_ok))
        sent   == <<[kind |-> "verify", token |-> token]>>
    IN  IF cached.raised
        THEN Failed(LookupError(env), "lookup failed", <<>>, st)
        ELSE IF cached.value # <<>>
        THEN Resolved(cached.value, <<>>, st)
        ELSE IF env.verify.status = 0
        THEN Failed("TokenError", "cannot connect to the SSO service", sent, st)
        ELSE IF env.verify.status = 200
        THEN LET user == User(env.verify.body)
             IN  Resolved(<<user>>, sent,
                          set_token_verification_cache(st, token, user, 0,
                              DjangoCache(env.backend_ok)).store)
        ELSE IF env.verify.status = 401
        THEN IF DictGet(env.verify.body, "code", None) = "token_expired"
             THEN Failed("TokenExpiredError", "token expired", sent, st)
             ELSE Failed("TokenError", "invalid token", sent, st)
        ELSE Failed("TokenError", "verification failed", sent, st)

\* SSOAuthentication._load_user_permissions: the cache lookup is outside the
\* try block, the remote request and the cache write are inside it
_load_user_permissions(user, st, env) ==
    IF ~HasTruthyAttr(user, "id")
    THEN Resolved(<<user>>, <<>>, st)
    ELSE
    LET cached == get_user_permissions_cache(st, user.id, DjangoCache(env.backend_ok))
        sent   == <<[kind |-> "permissions", user_id |-> user.id, token |-> user.token]>>
    IN  IF cached.raised
        THEN Failed(LookupError(env), "lookup failed", <<>>, st)
        ELSE IF TruthyData(cached.value)
        THEN Resolved(<<user>>, <<>>, st)
        ELSE IF env.remote.status = 200
        THEN Resolved(<<user>>, sent,
                      set_user_permissions_cache(st, user.id, env.remote.body, 0,
                          DjangoCache(env.backend_ok)).store)
        ELSE Resolved(<<user>>, sent, st)

\* SSOAuthentication.authenticate: returns None (no token) or the user, or
\* raises AuthenticationFailed; a TokenError keeps its message, any other
\* exception becomes the generic message
authenticate(request, st, env) ==
    LET token == _get_token_from_request(request)
    IN  IF FalsyStr(token) THEN Resolved(<<>>, <<>>, st)
        ELSE
        LET found == _get_user_from_token(token, st, env)
        IN  IF found.raised
            THEN IF IsTokenError(found.exc)
                 THEN Failed("AuthenticationFailed", found.message, found.calls, found.store)
                 ELSE Failed("AuthenticationFailed", "authentication error",
                             found.calls, found.store)
            ELSE
            LET loaded == _load_user_permissions(found.user[1], found.store, env)
            IN  IF loaded.raised
                THEN Failed("AuthenticationFailed", "authentication error",
                            found.calls \o loaded.calls, loaded.store)
                ELSE Resolved(found.user, found.calls \o loaded.calls, loaded.store)

\* the result of the middleware: the response ("handler" when get_response
\* was invoked), request.user ("unset", "anonymous" or "user" with the
\* identity in user), the remote requests sent and the store
Response(response, set, user, calls, st) ==
    [response |-> response, set |-> set, user |-> user, calls |-> calls, store |-> st]

\* the response to a request whose verification failed: a redirect to the SSO
\* login page unless the path is an API path
Rejected(request, api_response, calls, st) ==
    Response(IF StartsWith(request.path, "/api/") THEN api_response ELSE "redirect_sso",
             "anonymous", <<>>, calls, st)

\* the middleware whose handler for unexpected exceptions lets the request
\* through to the downstream handler
JWTAuthenticationMiddleware_passOnError(request, st, env) ==
    IF StartsWith(request.path, "/static/") \/ StartsWith(request.path, "/media/")
    THEN Response("handler", "unset", <<>>, <<>>, st)
    ELSE IF request.path \in {"/auth/login/", "/auth/callback/"}
    THEN Response("handler", "unset", <<>>, <<>>, st)
    ELSE IF \E pattern \in auth_exempt_patterns : Contains(request.path, pattern)
    THEN Response("handler", "unset", <<>>, <<>>, st)
    ELSE
    LET cookie == DictGet(request.COOKIES, "auth_access_token", None)
        token  == IF FalsyStr(cookie)
                  THEN DictGet(request.headers, "Authorization", None)
                  ELSE cookie
    IN  IF FalsyStr(token)
        THEN IF ~StartsWith(request.path, "/api/")
             THEN IF request.path = "/" /\ DEBUG
                  THEN Response("handler", "anonymous", <<>>, <<>>, st)
                  ELSE IF request.from_sso
                  THEN Response("render_403", "anonymous", <<>>, <<>>, st)
                  ELSE IF env.login_route
                  THEN Response("redirect_login", "anonymous", <<>>, <<>>, st)
                  ELSE Response("http_500", "anonymous", <<>>, <<>>, st)
             ELSE Response("handler", "anonymous", <<>>, <<>>, st)
        ELSE
        LET token_value == IF StartsWith(token, "Bearer ") THEN SplitIndex1(token) ELSE token
            cached      == get_token_verification_cache(st, token_value,
                                                        DjangoCache(env.backend_ok))
            attempts    == IF env.verify.status = 0 THEN 1 + SSO_MAX_RETRIES ELSE 1
            sent        == [i \in 1..attempts |-> [kind |-> "verify", token |-> token_value]]
        IN  IF cached.raised
            THEN Response("handler", "anonymous", <<>>, <<>>, st)
            ELSE IF cached.value # <<>>
            THEN Response("handler", "user", cached.value, <<>>, st)
            ELSE IF env.verify.status = 0
            THEN Rejected(request, "json_503_sso_service_error", sent, st)
            ELSE IF env.verify.status = 200
            THEN LET user == [User(env.verify.body) EXCEPT !.token = token_value]
                 IN  Response("handler", "user", <<user>>, sent,
                              set_token_verification_cache(st, token_value, user,
                                  TOKEN_CACHE_TTL, DjangoCache(env.backend_ok)).store)
            ELSE IF env.verify.status = 401
            THEN Rejected(request, "json_401_token_expired", sent, st)
            ELSE Rejected(request, "json_401_token_invalid", sent, st)

\* JWTAuthenticationMiddleware.__call__
JWTAuthenticationMiddleware(request, st, env) ==
    IF StartsWith(request.path, "/static/") \/ StartsWith(request.path, "/media/")
    THEN Response("handler", "unset", <<>>, <<>>, st)
    ELSE IF request.path \in {"/auth/login/", "/auth/callback/"}
    THEN Response("handler", "unset", <<>>, <<>>, st)
    ELSE IF \E pattern \in auth_exempt_patterns : Contains(request.path, pattern)
    THEN Response("handler", "unset", <<>>, <<>>, st)
    ELSE
    LET cookie == DictGet(request.COOKIES, "auth_access_token", None)
        token  == IF FalsyStr(cookie)
                  THEN DictGet(request.headers, "Authorization", None)
                  ELSE cookie
    IN  IF FalsyStr(token)
        THEN IF ~StartsWith(request.path, "/api/")
             THEN IF request.path = "/" /\ DEBUG
                  THEN Response("handler", "anonymous", <<>>, <<>>, st)
                  ELSE IF request.from_sso
                  THEN Response("render_403", "anonymous", <<>>, <<>>, st)
                  ELSE IF env.login_route
                  THEN Response("redirect_login", "anonymous", <<>>, <<>>, st)
                  ELSE Response("http_500", "anonymous", <<>>, <<>>, st)
             ELSE Response("handler", "anonymous", <<>>, <<>>, st)
        ELSE
        LET token_value == IF StartsWith(token, "Bearer ") THEN SplitIndex1(token) ELSE token
            cached      == get_token_verification_cache(st, token_value,
                                                        DjangoCache(env.backend_ok))
            attempts    == IF env.verify.status = 0 THEN 1 + SSO_MAX_RETRIES ELSE 1
            sent        == [i \in 1..attempts |-> [kind |-> "verify", token |-> token_value]]
        IN  IF cached.raised
            THEN Rejected(request, "json_500_auth_error", <<>>, st)
            ELSE IF cached.value # <<>>
            THEN Response("handler", "user", cached.value, <<>>, st)
            ELSE IF env.verify.status = 0
            THEN Rejected(request, "json_503_sso_service_error", sent, st)
            ELSE IF env.verify.status = 200
            THEN LET user == [User(env.verify.body) EXCEPT !.token = token_value]
                 IN  Response("handler", "user", <<user>>, sent,
                              set_token_verification_cache(st, token_value, user,
                                  TOKEN_CACHE_TTL, DjangoCache(env.backend_ok)).store)
            ELSE IF env.verify.status = 401
            THEN Rejected(request, "json_401_token_expired", sent, st)
            ELSE Rejected(request, "json_401_token_invalid", sent, st)

\* ------------------------------------------------------------------------
\* SpecCache: the cache facade called by the embedding application, over the
\* Django cache or over the MockCache; entries of the Django cache expire
\* ------------------------------------------------------------------------
\* timeouts passed to the set functions: 0 for None (the default), or seconds
Timeouts == {0, 60}

\* the identity the token cache is given: a verified user carrying its token
CachedIdentities == { [User([id |-> "1"]) EXCEPT !.token = "ck"] }

InitCache ==
    /\ call = [op |-> "none"]
    /\ ret = <<>>
    /\ store = [k \in StoreKeys |-> <<>>]
    /\ chk = <<>>
    /\ backend \in {"django", "mock"}
    /\ fac = <<>>
    /\ auth = <<>>
    /\ wk = <<>>
    /\ sso_session = <<>>
    /\ sessions = {}
    /\ _request_context = <<>>

\* what the next call remembers of the call before it
Summary(r) ==
    [fn |-> r.fn, arg |-> r.arg, given |-> r.given, raised |-> r.raised,
     returned |-> r.returned]

\* the record of a facade call: the function, its key argument, the value
\* and timeout given to a set, whether the backend answered, whether the call
\* raised, what it returned ("True", "False", "None" or "value" with the
\* value in value), the store before the call and the call before it
FacadeCall(fn, arg, given, timeout, ok, raised, returned, value) ==
    [ fn |-> fn, arg |-> arg, given |-> given, timeout |-> timeout, ok |-> ok,
      raised |-> raised, returned |-> returned, value |-> value,
      before |-> store,
      prev |-> IF fac = <<>> THEN <<>> ELSE <<Summary(fac[1])>> ]

\* what a get function hands to its caller
GetReturned(o) ==
    IF o.raised THEN "raise" ELSE IF o.value = <<>> THEN "None" ELSE "value"

CacheSetToken ==
    \E token_value \in Tokens, user_obj \in CachedIdentities,
       timeout \in Timeouts, ok \in BOOLEAN :
        LET o == set_token_verification_cache(store, token_value, user_obj, timeout,
                                              _get_cache(backend, ok))
        IN  /\ store' = o.store
            /\ fac' = <<FacadeCall("set_token_verification_cache", token_value,
                                   <<user_obj>>, timeout, _get_cache(backend, ok).ok,
                                   o.raised, IF o.raised THEN "raise" ELSE Bool(o.ok),
                                   <<>>)>>
            /\ UNCHANGED <<sso_session, sessions, _request_context, call, ret, chk, backend, auth, wk>>

CacheGetToken ==
    \E token_value \in Tokens, ok \in BOOLEAN :
        LET o == get_token_verification_cache(store, token_value, _get_cache(backend, ok))
        IN  /\ fac' = <<FacadeCall("get_token_verification_cache", token_value,
                                   <<>>, 0, _get_cache(backend, ok).ok,
                                   o.raised, GetReturned(o),
                                   IF o.raised THEN <<>> ELSE o.value)>>
            /\ UNCHANGED <<sso_session, sessions, _request_context, call, ret, store, chk, backend, auth, wk>>

CacheInvalidateToken ==
    \E token_value \in Tokens, ok \in BOOLEAN :
        LET o == invalidate_token_cache(store, token_value, _get_cache(backend, ok))
        IN  /\ store' = o.store
            /\ fac' = <<FacadeCall("invalidate_token_cache", token_value,
                                   <<>>, 0, _get_cache(backend, ok).ok,
                                   o.raised, IF o.raised THEN "raise" ELSE "None",
                                   <<>>)>>
            /\ UNCHANGED <<sso_session, sessions, _request_context, call, ret, chk, backend, auth, wk>>

CacheSetPermissions ==
    \E user_id \in UserIds, permissions_data \in CachedPayloads,
       timeout \in Timeouts, ok \in BOOLEAN :
        LET o == set_user_permissions_cache(store, user_id, permissions_data, timeout,
                                            _get_cache(backend, ok))
        IN  /\ store' = o.store
            /\ fac' = <<FacadeCall("set_user_permissions_cache", user_id,
                                   <<permissions_data>>, timeout,
                                   _get_cache(backend, ok).ok,
                                   o.raised, IF o.raised THEN "raise" ELSE Bool(o.ok),
                                   <<>>)>>
            /\ UNCHANGED <<sso_session, sessions, _request_context, call, ret, chk, backend, auth, wk>>

CacheGetPermissions ==
    \E user_id \in UserIds, ok \in BOOLEAN :
        LET o == get_user_permissions_cache(store, user_id, _get_cache(backend, ok))
        IN  /\ fac' = <<FacadeCall("get_user_permissions_cache", user_id,
                                   <<>>, 0, _get_cache(backend, ok).ok,
                                   o.raised, GetReturned(o),
                                   IF o.raised THEN <<>> ELSE o.value)>>
            /\ UNCHANGED <<sso_session, sessions, _request_context, call, ret, store, chk, backend, auth, wk>>

CacheInvalidateUser ==
    \E user_id \in UserIds, ok \in BOOLEAN :
        LET o == invalidate_user_cache(store, user_id, _get_cache(backend, ok))
        IN  /\ store' = o.store
            /\ fac' = <<FacadeCall("invalidate_user_cache", user_id,
                                   <<>>, 0, _get_cache(backend, ok).ok,
                                   o.raised, IF o.raised THEN "raise" ELSE "None",
                                   <<>>)>>
            /\ UNCHANGED <<sso_session, sessions, _request_context, call, ret, chk, backend, auth, wk>>

\* the backing store drops an entry whose timeout has elapsed
Expire ==
    \E key \in StoreKeys :
        /\ store[key] # <<>>
        /\ store' = [store EXCEPT ![key] = <<>>]
        /\ fac' = <<FacadeCall("expire", key, <<>>, 0, TRUE, FALSE, "None", <<>>)>>
        /\ UNCHANGED <<sso_session, sessions, _request_context, call, ret, chk, backend, auth, wk>>

NextCache ==
    \/ CacheSetToken
    \/ CacheGetToken
    \/ CacheInvalidateToken
    \/ CacheSetPermissions
    \/ CacheGetPermissions
    \/ CacheInvalidateUser
    \/ Expire

SpecCache == InitCache /\ [][NextCache]_vars

\* ------------------------------------------------------------------------
\* SpecAuth: token resolution by SSOAuthentication.authenticate and by
\* JWTAuthenticationMiddleware over the shared store, which the embedding
\* application fills and invalidates through the facade
\* ------------------------------------------------------------------------
\* user data in the remote's 200 answers to a verification
VerifyBodies == { [id |-> "1"], EmptyDict }

VerifyAnswers ==
    [status : {200}, body : VerifyBodies]
    \cup [status : {401}, body : {[code |-> "token_expired"], [code |-> "token_invalid"]}]
    \cup [status : {500, 0}, body : {EmptyDict}]

Paths == {"/static/x", "/auth/login/", "/api/callback/x", "/api/x", "/page"}

Requests ==
    { [path |-> p, from_sso |-> f, headers |-> c.headers, COOKIES |-> c.COOKIES] :
        p \in Paths, f \in BOOLEAN, c \in RequestContexts }

\* authenticate is called by the REST framework on an API request; the
\* middleware sees every request and sends no permissions request
AuthCalls ==
    [ entry : {"authenticate"},
      request : {r \in Requests : r.path = "/api/x" /\ ~r.from_sso},
      env : [backend_ok : BOOLEAN, verify : VerifyAnswers, remote : RemoteAnswers,
             login_route : {TRUE}] ]
    \cup
    [ entry : {"middleware"}, request : Requests,
      env : [backend_ok : BOOLEAN, verify : VerifyAnswers,
             remote : {[status |-> 500, body |-> EmptyDict]}, login_route : BOOLEAN] ]

InitAuth ==
    /\ call = [op |-> "none"]
    /\ ret = <<>>
    /\ store = [k \in StoreKeys |-> <<>>]
    /\ chk = <<>>
    /\ backend = "django"
    /\ fac = <<>>
    /\ auth = <<>>
    /\ wk = <<>>
    /\ sso_session = <<>>
    /\ sessions = {}
    /\ _request_context = <<>>

AuthCall ==
    /\ auth = <<>>
    /\ \E c \in AuthCalls :
         auth' = <<[ phase |-> "called", args |-> c, token |-> None, cached |-> <<>>,
                     resolver |-> "pending", result |-> "pending", set |-> "unset",
                     user |-> <<>>, message |-> None, calls |-> <<>>,
                     stored |-> <<>>, wrote |-> FALSE ]>>
    /\ UNCHANGED <<sso_session, sessions, _request_context, call, ret, store, chk, backend, fac, wk>>

\* the token-cache entry under a token, <<>> for no token
TokenEntry(st, token) ==
    IF FalsyStr(token) \/ get_token_cache_key(token) \notin DOMAIN st
    THEN <<>>
    ELSE st[get_token_cache_key(token)]

\* the way _get_user_from_token ended: "user" or the exception's class
ResolverResult(found) == IF found.raised THEN found.exc ELSE "user"

\* authenticate ran: the token it extracted, the entry cached under it, how
\* _get_user_from_token ended (resolver, "skipped" without token), whether
\* authenticate returned None, returned the user or raised, the entry under
\* the token afterwards and whether the store changed
Authenticate ==
    /\ auth # <<>>
    /\ auth[1].phase = "called"
    /\ auth[1].args.entry = "authenticate"
    /\ LET c     == auth[1].args
           token == _get_token_from_request(c.request)
           o     == authenticate(c.request, store, c.env)
       IN  /\ store' = o.store
           /\ auth' = <<[ auth[1] EXCEPT
                  !.phase    = "returned",
                  !.token    = token,
                  !.cached   = TokenEntry(store, token),
                  !.resolver = IF FalsyStr(token) THEN "skipped"
                               ELSE ResolverResult(_get_user_from_token(token, store, c.env)),
                  !.result   = IF o.raised THEN o.exc
                               ELSE IF o.user = <<>> THEN "None" ELSE "user",
                  !.set      = IF ~o.raised /\ o.user # <<>> THEN "user" ELSE "unset",
                  !.user     = o.user,
                  !.message  = o.message,
                  !.calls    = o.calls,
                  !.stored   = TokenEntry(o.store, token),
                  !.wrote    = (o.store # store) ]>>
    /\ UNCHANGED <<sso_session, sessions, _request_context, call, ret, chk, backend, fac, wk>>

\* the token the middleware verifies, None when the request is exempt or
\* carries none
MiddlewareToken(request) ==
    LET cookie == DictGet(request.COOKIES, "auth_access_token", None)
        token  == IF FalsyStr(cookie)
                  THEN DictGet(request.headers, "Authorization", None)
                  ELSE cookie
    IN  IF \/ StartsWith(request.path, "/static/") \/ StartsWith(request.path, "/media/")
           \/ request.path \in {"/auth/login/", "/auth/callback/"}
           \/ \E pattern \in auth_exempt_patterns : Contains(request.path, pattern)
           \/ FalsyStr(token)
        THEN None
        ELSE IF StartsWith(token, "Bearer ") THEN SplitIndex1(token) ELSE token

\* the middleware ran: its response, request.user, the requests it sent
Middleware ==
    /\ auth # <<>>
    /\ auth[1].phase = "called"
    /\ auth[1].args.entry = "middleware"
    /\ LET c     == auth[1].args
           token == MiddlewareToken(c.request)
           o     == JWTAuthenticationMiddleware(c.request, store, c.env)
       IN  /\ store' = o.store
           /\ auth' = <<[ auth[1] EXCEPT
                  !.phase    = "returned",
                  !.token    = token,
                  !.cached   = TokenEntry(store, token),
                  !.resolver = "middleware",
                  !.result   = o.response,
                  !.set      = o.set,
                  !.user     = o.user,
                  !.calls    = o.calls,
                  !.stored   = TokenEntry(o.store, token),
                  !.wrote    = (o.store # store) ]>>
    /\ UNCHANGED <<sso_session, sessions, _request_context, call, ret, chk, backend, fac, wk>>

\* the caller has taken the outcome
AuthReturn ==
    /\ auth # <<>>
    /\ auth[1].phase = "returned"
    /\ auth' = <<>>
    /\ UNCHANGED <<sso_session, sessions, _request_context, call, ret, store, chk, backend, fac, wk>>

\* the embedding application caches a verified identity under its token
SetTokenVerificationCache ==
    \E token_value \in Tokens, set_ok \in BOOLEAN :
        /\ store' = set_token_verification_cache(
                        store, token_value,
                        [User([id |-> "1"]) EXCEPT !.token = token_value],
                        0, DjangoCache(set_ok)).store
        /\ UNCHANGED <<sso_session, sessions, _request_context, call, ret, chk, backend, fac, auth, wk>>

InvalidateTokenCache ==
    \E token_value \in Tokens, delete_ok \in BOOLEAN :
        /\ store' = invalidate_token_cache(store, token_value, DjangoCache(delete_ok)).store
        /\ UNCHANGED <<sso_session, sessions, _request_context, call, ret, chk, backend, fac, auth, wk>>

NextAuth ==
    \/ AuthCall
    \/ Authenticate
    \/ Middleware
    \/ AuthReturn
    \/ SetTokenVerificationCache
    \/ InvalidateTokenCache
    \/ SetUserPermissionsCache
    \/ InvalidateUserCache

SpecAuth == InitAuth /\ [][NextAuth]_vars

\* ------------------------------------------------------------------------
\* SpecWorkers: two workers run check_permission for the same user
\* concurrently; a step of a worker is one access to the shared store or to
\* the remote service (the code takes no lock around them)
\* ------------------------------------------------------------------------
Workers == {1, 2}

\* the user both workers check: a member with id and token, or a superuser
WorkerUsers ==
    { [id |-> "1", is_authenticated |-> TRUE, is_superuser |-> FALSE, token |-> "tk"],
      [id |-> "1", is_authenticated |-> TRUE, is_superuser |-> TRUE,  token |-> "tk"] }

\* bodies of the remote's 200 answers to the two workers
WorkerBodies ==
    CachedPayloads
    \cup { [permissions |-> <<[code |-> "A", permissions |-> <<[codename |-> "add_A"]>>]>>] }

WorkerCalls ==
    [ user : WorkerUsers, module : {"A"},
      permissions : {[kind |-> "str", val |-> "view"], [kind |-> "str", val |-> "add"]},
      env : [backend_ok : BOOLEAN,
             remote : [status : {200}, body : WorkerBodies]
                      \cup [status : {500, 0}, body : {EmptyDict}]] ]

\* a worker outside a call
Idle ==
    [ pc |-> "idle", args |-> <<>>, data |-> <<>>, fetched |-> <<>>, missed |-> FALSE,
      result |-> "pending", calls |-> 0, last |-> FALSE ]

InitWorkers ==
    /\ call = [op |-> "none"]
    /\ ret = <<>>
    /\ store = [k \in StoreKeys |-> <<>>]
    /\ chk = <<>>
    /\ backend = "django"
    /\ fac = <<>>
    /\ auth = <<>>
    /\ wk = [w \in Workers |-> Idle]
    /\ sso_session = <<>>
    /\ sessions = {}
    /\ _request_context = <<>>

\* worker w is handed a check; both workers check the same user
WorkerCall(w) ==
    /\ wk[w].pc = "idle"
    /\ \E c \in WorkerCalls :
         /\ \A v \in Workers : wk[v].args # <<>> => wk[v].args[1].user = c.user
         /\ wk' = [wk EXCEPT ![w] = [Idle EXCEPT !.pc = "enter", !.args = <<c>>]]
    /\ UNCHANGED <<sso_session, sessions, _request_context, call, ret, store, chk, backend, fac, auth>>

\* the worker's call ends with a result
Ended(r, result) == [r EXCEPT !.pc = "done", !.result = result]

\* the next statement of check_permission for a worker in state r over the
\* store st: the worker's state and the store after it
\*   enter   the tests of the user (permissions.py:331-336)
\*   lookup  get_user_permissions_cache in check_permission (342)
\*   lookup2 the lookup and the token choice of _get_user_permissions (116-153)
\*   fetch   requests.get (164-173)
\*   write   set_user_permissions_cache (175-184)
\*   decide  the aggregation and the membership tests (363-381)
\* an exception inside the try block ends the call with False (382-384)
WorkerNext(r, st) ==
    LET c     == r.args[1]
        user  == c.user
        cache == DjangoCache(c.env.backend_ok)
        perms == AsList(c.permissions)
    IN  IF r.pc = "enter"
        THEN [ w |-> IF IsNoUser(user) \/ ~user.is_authenticated THEN Ended(r, "False")
                     ELSE IF "is_superuser" \in DOMAIN user /\ user.is_superuser
                     THEN Ended(r, "True")
                     ELSE [r EXCEPT !.pc = "lookup"],
               store |-> st, wrote |-> FALSE ]
        ELSE IF r.pc = "lookup"
        THEN LET cached == get_user_permissions_cache(st, user.id, cache)
                 seen   == [r EXCEPT !.missed = (st[get_permissions_cache_key(user.id)] = <<>>)]
             IN  [ w |-> IF cached.raised THEN Ended(seen, "False")
                         ELSE IF TruthyData(cached.value)
                         THEN [seen EXCEPT !.pc = "decide", !.data = cached.value]
                         ELSE [seen EXCEPT !.pc = "lookup2"],
                   store |-> st, wrote |-> FALSE ]
        ELSE IF r.pc = "lookup2"
        THEN LET cached == get_user_permissions_cache(st, user.id, cache)
             IN  [ w |-> IF ~HasTruthyAttr(user, "id") THEN Ended(r, "False")
                         ELSE IF cached.raised THEN Ended(r, "False")
                         ELSE IF TruthyData(cached.value)
                         THEN [r EXCEPT !.pc = "decide", !.data = cached.value]
                         ELSE IF FalsyStr(SelectToken(MockRequest(user)))
                         THEN Ended(r, "False")
                         ELSE [r EXCEPT !.pc = "fetch"],
                   store |-> st, wrote |-> FALSE ]
        ELSE IF r.pc = "fetch"
        THEN [ w |-> IF c.env.remote.status = 200
                     THEN [r EXCEPT !.pc = "write", !.calls = r.calls + 1,
                                    !.fetched = <<c.env.remote.body>>,
                                    !.data = <<c.env.remote.body>>]
                     ELSE Ended([r EXCEPT !.calls = r.calls + 1], "False"),
               store |-> st, wrote |-> FALSE ]
        ELSE IF r.pc = "write"
        THEN [ w |-> [r EXCEPT !.pc = "decide"],
               store |-> set_user_permissions_cache(st, user.id, r.fetched[1],
                                                    USER_CACHE_TIMEOUT, cache).store,
               wrote |-> cache.ok ]
        ELSE LET collected == IF TruthyData(r.data)
                              THEN _collect_module_permissions(r.data[1])
                              ELSE Raised
             IN  [ w |-> IF collected.raised THEN Ended(r, "False")
                         ELSE Ended(r, Bool(AllFormattedIn(c.module, perms,
                                                           collected.value))),
                   store |-> st, wrote |-> FALSE ]

\* worker w executes its next statement; last marks the worker whose write
\* the store holds
WorkerStep(w) ==
    /\ wk[w].pc \notin {"idle", "done"}
    /\ LET n == WorkerNext(wk[w], store)
       IN  /\ store' = n.store
           /\ wk' = [v \in Workers |->
                       IF v = w THEN [n.w EXCEPT !.last = (n.wrote \/ wk[w].last)]
                       ELSE IF n.wrote THEN [wk[v] EXCEPT !.last = FALSE]
                       ELSE wk[v]]
    /\ UNCHANGED <<sso_session, sessions, _request_context, call, ret, chk, backend, fac, auth>>

\* the caller of worker w has taken the result
WorkerReturn(w) ==
    /\ wk[w].pc = "done"
    /\ wk' = [wk EXCEPT ![w] = Idle]
    /\ UNCHANGED <<sso_session, sessions, _request_context, call, ret, store, chk, backend, fac, auth>>

NextWorkers ==
    \E w \in Workers :
        \/ WorkerCall(w)
        \/ WorkerStep(w)
        \/ WorkerReturn(w)

SpecWorkers == InitWorkers /\ [][NextWorkers]_vars

\* ------------------------------------------------------------------------
\* SpecSession: the workers of one process call get_sso_session
\* (middleware.py), each for the first time or again; a step of a worker is
\* one access to the module global sso_session (the code takes no lock)
\* ------------------------------------------------------------------------
SessionWorkers == {1, 2, 3}

\* a worker outside a call; got is what its last call returned
NotCalling == [pc |-> "idle", got |-> <<>>]

InitSession ==
    /\ call = [op |-> "none"]
    /\ ret = <<>>
    /\ store = [k \in StoreKeys |-> <<>>]
    /\ chk = <<>>
    /\ backend = "django"
    /\ fac = <<>>
    /\ auth = <<>>
    /\ wk = [w \in SessionWorkers |-> NotCalling]
    /\ sso_session = <<>>
    /\ sessions = {}
    /\ _request_context = <<>>

\* worker w calls get_sso_session
GetSsoSessionCall(w) ==
    /\ wk[w].pc = "idle"
    /\ wk' = [wk EXCEPT ![w] = [pc |-> "test", got |-> <<>>]]
    /\ UNCHANGED <<sso_session, sessions, _request_context,
                   call, ret, store, chk, backend, fac, auth>>

\* the next statement of get_sso_session for a worker in state r: the
\* worker's state, the global and the sessions created after it
\*   test    if sso_session is None (middleware.py:71)
\*   create  sso_session = requests.Session() and its adapters (73-87); the
\*           new object is numbered by the order of creation
\*   return  return sso_session (89)
get_sso_session(r, global, created) ==
    IF r.pc = "test"
    THEN [ w |-> [r EXCEPT !.pc = IF global = <<>> THEN "create" ELSE "return"],
           sso_session |-> global, sessions |-> created ]
    ELSE IF r.pc = "create"
    THEN [ w |-> [r EXCEPT !.pc = "return"],
           sso_session |-> <<Cardinality(created) + 1>>,
           sessions |-> created \cup {Cardinality(created) + 1} ]
    ELSE [ w |-> [r EXCEPT !.pc = "done", !.got = global],
           sso_session |-> global, sessions |-> created ]

\* worker w executes its next statement
GetSsoSessionStep(w) ==
    /\ wk[w].pc \notin {"idle", "done"}
    /\ LET n == get_sso_session(wk[w], sso_session, sessions)
       IN  /\ wk' = [wk EXCEPT ![w] = n.w]
           /\ sso_session' = n.sso_session
           /\ sessions' = n.sessions
    /\ UNCHANGED <<_request_context, call, ret, store, chk, backend, fac, auth>>

\* the caller of worker w keeps the session it got and may call again
GetSsoSessionReturn(w) ==
    /\ wk[w].pc = "done"
    /\ wk' = [wk EXCEPT ![w].pc = "idle"]
    /\ UNCHANGED <<sso_session, sessions, _request_context,
                   call, ret, store, chk, backend, fac, auth>>

NextSession ==
    \E w \in SessionWorkers :
        \/ GetSsoSessionCall(w)
        \/ GetSsoSessionStep(w)
        \/ GetSsoSessionReturn(w)

SpecSession == InitSession /\ [][NextSession]_vars

\* ------------------------------------------------------------------------
\* Request context of the logging middleware (logging_service.py)
\* The thread-local _request_context is, per worker, <<>> while the thread
\* has no 'data' attribute and <<dict>> once it has one.
\* ------------------------------------------------------------------------
\* getattr(_request_context, 'data', {})
get_request_context(local) == IF local = <<>> THEN EmptyDict ELSE local[1]

\* dict.update(kwargs)
Update(d, kwargs) ==
    [k \in DOMAIN d \cup DOMAIN kwargs |-> IF k \in DOMAIN kwargs THEN kwargs[k] ELSE d[k]]

set_request_context(local, kwargs) ==
    <<Update(IF local = <<>> THEN EmptyDict ELSE local[1], kwargs)>>

clear_request_context(local) == IF local # <<>> THEN <<EmptyDict>> ELSE local

\* RequestLoggingMiddleware.exclude_paths and exclude_suffixes
exclude_paths == {"/static/", "/media/", "/favicon.ico", "/health/", "/__debug__/"}

exclude_suffixes ==
    {".js", ".css", ".png", ".jpg", ".jpeg", ".gif", ".ico", ".svg", ".woff", ".woff2"}

_should_skip(path) ==
    \/ \E prefix \in exclude_paths : StartsWith(path, prefix)
    \/ \E suffix \in exclude_suffixes : EndsWith(path, suffix)

\* a request has a user attribute or none; the user has a username
_get_username(request) ==
    IF "user" \in DOMAIN request
          /\ "is_authenticated" \in DOMAIN request.user
          /\ request.user.is_authenticated
    THEN request.user.username
    ELSE "anonymous"

\* s.split(',')[0]
SplitIndex0(s) ==
    LET commas == {i \in 1..Len(s) : SubSeq(s, i, i) = ","}
        stop   == IF commas = {} THEN Len(s) + 1
                  ELSE CHOOSE i \in commas : \A j \in commas : i <= j
    IN  SubSeq(s, 1, stop - 1)

_get_client_ip(request) ==
    LET x_forwarded_for == DictGet(request.META, "HTTP_X_FORWARDED_FOR", None)
    IN  IF ~FalsyStr(x_forwarded_for)
        THEN Strip(SplitIndex0(x_forwarded_for))
        ELSE DictGet(request.META, "REMOTE_ADDR", "")

\* ContextLogger._get_context_info over the context of the calling thread
_get_context_info(local) ==
    LET ctx == get_request_context(local)
    IN  [ user       |-> DictGet(ctx, "user", "system"),
          request_id |-> DictGet(ctx, "request_id", "-"),
          ip         |-> DictGet(ctx, "ip", "-") ]

\* RequestLoggingMiddleware.__call__ on a thread whose context is local:
\* whether the downstream handler's exception leaves the middleware, what a
\* ContextLogger of the downstream handler gets from the context (seen), and
\* the thread's context afterwards. request_id is the uuid drawn for the
\* request; raises tells whether get_response raises.
RequestLoggingMiddleware(request, local, request_id, raises) ==
    IF _should_skip(request.path)
    THEN [raised |-> raises, seen |-> _get_context_info(local), local |-> local]
    ELSE
    LET entered == set_request_context(local,
                       [ request_id |-> request_id,
                         user       |-> _get_username(request),
                         ip         |-> _get_client_ip(request),
                         path       |-> request.path,
                         method     |-> request.method ])
    IN  IF raises
        THEN [raised |-> TRUE, seen |-> _get_context_info(entered), local |-> entered]
        ELSE [raised |-> FALSE, seen |-> _get_context_info(entered),
              local |-> clear_request_context(entered)]

\* ------------------------------------------------------------------------
\* SpecLogging: each worker (thread) handles one request after another
\* through RequestLoggingMiddleware
\* ------------------------------------------------------------------------
LogWorkers == {1, 2}

\* the values uuid4 gives
RequestIds == {"r1", "r2"}

LogRequests ==
    [ path   : {"/page", "/static/x"},
      method : {"GET"},
      user   : {[is_authenticated |-> TRUE, username |-> "alice"]},
      META   : {[REMOTE_ADDR |-> "10.0.0.1"],
                [HTTP_X_FORWARDED_FOR |-> "10.0.0.2, 10.0.0.1", REMOTE_ADDR |-> "10.0.0.1"]} ]
    \cup
    [ path   : {"/page", "/static/x"},
      method : {"GET"},
      META   : {[REMOTE_ADDR |-> "10.0.0.1"]} ]

\* a worker between requests
Waiting == [pc |-> "idle"]

InitLogging ==
    /\ call = [op |-> "none"]
    /\ ret = <<>>
    /\ store = [k \in StoreKeys |-> <<>>]
    /\ chk = <<>>
    /\ backend = "django"
    /\ fac = <<>>
    /\ auth = <<>>
    /\ wk = [w \in LogWorkers |-> Waiting]
    /\ sso_session = <<>>
    /\ sessions = {}
    /\ _request_context = [w \in LogWorkers |-> <<>>]

\* worker w receives a request; raises tells what the downstream handler
\* will do with it
LogCall(w) ==
    /\ wk[w].pc = "idle"
    /\ \E request \in LogRequests, raises \in BOOLEAN :
         wk' = [wk EXCEPT ![w] = [pc |-> "called", request |-> request, raises |-> raises]]
    /\ UNCHANGED <<sso_session, sessions, _request_context,
                   call, ret, store, chk, backend, fac, auth>>

\* worker w runs the middleware on its request: what the middleware did,
\* with the thread's context before it
LogHandle(w) ==
    /\ wk[w].pc = "called"
    /\ \E request_id \in RequestIds :
         LET o == RequestLoggingMiddleware(wk[w].request, _request_context[w],
                                           request_id, wk[w].raises)
         IN  /\ _request_context' = [_request_context EXCEPT ![w] = o.local]
             /\ wk' = [wk EXCEPT ![w] =
                         [ pc |-> "returned", request |-> wk[w].request,
                           raises |-> wk[w].raises,
                           request_id |-> IF _should_skip(wk[w].request.path)
                                          THEN None ELSE request_id,
                           raised |-> o.raised, seen |-> o.seen,
                           before |-> _request_context[w] ]]
    /\ UNCHANGED <<sso_session, sessions, call, ret, store, chk, backend, fac, auth>>

\* the response or the exception has left worker w
LogReturn(w) ==
    /\ wk[w].pc = "returned"
    /\ wk' = [wk EXCEPT ![w] = Waiting]
    /\ UNCHANGED <<sso_session, sessions, _request_context,
                   call, ret, store, chk, backend, fac, auth>>

NextLogging ==
    \E w \in LogWorkers :
        \/ LogCall(w)
        \/ LogHandle(w)
        \/ LogReturn(w)

SpecLogging == InitLogging /\ [][NextLogging]_vars

\* ------------------------------------------------------------------------
\* SpecAgg: the pure functions applied to every bounded input
\* ------------------------------------------------------------------------
InitAgg ==
    /\ call \in FormatCalls \cup CollectCalls
    /\ ret = <<>>
    /\ store = [k \in StoreKeys |-> <<>>]
    /\ chk = <<>>
    /\ backend = "django"
    /\ fac = <<>>
    /\ auth = <<>>
    /\ wk = <<>>
    /\ sso_session = <<>>
    /\ sessions = {}
    /\ _request_context = <<>>

FormatPermission ==
    /\ call.op = "format_permission"
    /\ ret = <<>>
    /\ ret' = <<Returned(format_permission(call.module, call.action))>>
    /\ UNCHANGED <<sso_session, sessions, _request_context, call, store, chk, backend, fac, auth, wk>>

CollectModulePermissions ==
    /\ call.op = "_collect_module_permissions"
    /\ ret = <<>>
    /\ ret' = <<_collect_module_permissions(call.permissions_data)>>
    /\ UNCHANGED <<sso_session, sessions, _request_context, call, store, chk, backend, fac, auth, wk>>

NextAgg == FormatPermission \/ CollectModulePermissions

SpecAgg == InitAgg /\ [][NextAgg]_vars

\* ------------------------------------------------------------------------
\* Properties of the gate (Spec)
\* ------------------------------------------------------------------------
Done == chk # <<>> /\ chk[1].phase = "returned"

Authenticated(user) == ~IsNoUser(user) /\ user.is_authenticated

Superuser(user) == "is_superuser" \in DOMAIN user /\ user.is_superuser

\* a gate call of an authenticated identity that is not a superuser
MemberCall == Done /\ Authenticated(chk[1].args.user) /\ ~Superuser(chk[1].args.user)

\* the backing store answered during the call
BackendUp == chk[1].args.env.backend_ok

Required == AsList(chk[1].args.permissions)

\* the request whose token sources the call can use
EffectiveRequest ==
    IF chk[1].args.entry = "has_permission"
    THEN RequestOf(chk[1].args)
    ELSE MockRequest(chk[1].args.user)

\* C1: a call of any entry point for an authenticated superuser returns True,
\* whatever the cache holds and whatever the remote would answer, and it
\* reads no cache key and sends no remote request.
C1_SuperuserBypass ==
    (Done /\ Authenticated(chk[1].args.user) /\ Superuser(chk[1].args.user))
        => /\ chk[1].result = "True"
           /\ chk[1].reads = {}
           /\ chk[1].calls = <<>>

\* a superuser was allowed while a payload was cached under the id, the
\* backing store was down and the remote unreachable
C1_Witness ==
    /\ Done
    /\ Superuser(chk[1].args.user)
    /\ chk[1].cached # <<>>
    /\ ~chk[1].args.env.backend_ok
    /\ chk[1].args.env.remote.status = 0
    /\ Required # <<>>
    /\ chk[1].result = "True"

\* C2: a check for a non-superuser with no cached payload and no token in
\* the identity, the Authorization header or the cookie returns False and
\* sends no remote permissions request.
C2_NoTokenDenies ==
    (MemberCall /\ BackendUp /\ Required # <<>> /\ chk[1].cached = <<>>
        /\ FalsyStr(SelectToken(EffectiveRequest)))
        => /\ chk[1].result = "False"
           /\ chk[1].calls = <<>>

\* C3: a check for a non-superuser whose payload is not cached, when the
\* remote answers non-200 or fails at transport level, returns False and
\* writes nothing to the cache.
C3_FetchFailureDenies ==
    (MemberCall /\ BackendUp /\ Required # <<>> /\ chk[1].cached = <<>>
        /\ chk[1].args.env.remote.status # 200)
        => /\ chk[1].result = "False"
           /\ ~chk[1].wrote

\* C4: no entry point of the gate lets an exception reach its caller; every
\* failure inside the check ends in the boolean False.
C4_NeverRaises == Done => chk[1].result \in {"True", "False"}

\* C6: the gate returns False for an absent or unauthenticated identity,
\* otherwise True for a superuser, otherwise True when no permission is
\* required, for every entry point.
C6_DecisionOrder ==
    Done =>
        /\ ~Authenticated(chk[1].args.user) => chk[1].result = "False"
        /\ (Authenticated(chk[1].args.user) /\ Superuser(chk[1].args.user))
              => chk[1].result = "True"
        /\ (MemberCall /\ Required = <<>>) => chk[1].result = "True"

\* C7: for a non-superuser whose payload is available (cached, the backing
\* store answering), the check
\* returns True exactly when every required permission, formatted for the
\* requested module, is in the aggregated set.
C7_AllRequired ==
    (MemberCall /\ BackendUp /\ Required # <<>> /\ TruthyData(chk[1].cached)
        /\ ~_collect_module_permissions(chk[1].cached[1].value).raised)
        => (chk[1].result = "True"
              <=> AllFormattedIn(chk[1].args.module, Required,
                    _collect_module_permissions(chk[1].cached[1].value).value))

\* ------------------------------------------------------------------------
\* Properties of the pure functions (SpecAgg)
\* ------------------------------------------------------------------------
Formatted == call.op = "format_permission" /\ ret # <<>>

Collected == call.op = "_collect_module_permissions" /\ ret # <<>>

EntriesOf(permissions_data) == DictGet(permissions_data, "permissions", <<>>)

WellFormed(permissions_data) ==
    \A i \in 1..Len(EntriesOf(permissions_data)) :
        "code" \in DOMAIN EntriesOf(permissions_data)[i]

\* the codename c carries the module code m: c = x_m or c = x_m_y
Embeds(c, m) ==
    \/ \E k \in 0..Len(c) : SubSeq(c, 1, k) \o "_" \o m = c
    \/ \E k \in 0..Len(c), l \in 1..(Len(c) + 1) :
          SubSeq(c, 1, k) \o "_" \o m \o "_" \o SubSeq(c, l, Len(c)) = c

\* C5: every codename c a payload lists under a child module m is in the
\* aggregated set under the name the check looks up, format_permission(m, c).
C5_SameQualification ==
    (Collected /\ ~ret[1].raised) =>
        \A i \in 1..Len(EntriesOf(call.permissions_data)) :
            LET e == EntriesOf(call.permissions_data)[i]
            IN  ("code" \in DOMAIN e /\ e.code # get_parent_module) =>
                  \A c \in Codenames(e) : format_permission(e.code, c) \in ret[1].value

\* C8 as claimed: for a child module m, format_permission(m, c) is "m.c".
C8_PlainQualification ==
    (Formatted /\ call.module # get_parent_module)
        => ret[1].value = call.module \o "." \o call.action

\* C8: for a child module m, format_permission(m, c) is "m.c" when c carries
\* the module code (ends with "_m" or contains "_m_"), and "m.c_m" otherwise.
C8_Qualification ==
    (Formatted /\ call.module # get_parent_module)
        => ret[1].value =
             IF Embeds(call.action, call.module)
             THEN call.module \o "." \o call.action
             ELSE call.module \o "." \o call.action \o "_" \o call.module

\* a basic action was qualified with the module suffix
C8_Witness ==
    /\ Formatted
    /\ call.module = "A"
    /\ call.action = "view"
    /\ ret[1].value = "A.view_A"

\* C9: for the parent module, format_permission returns the action itself,
\* without a module prefix.
C9_ParentUnqualified ==
    (Formatted /\ call.module = get_parent_module) => ret[1].value = call.action

C9_Witness ==
    /\ Formatted
    /\ call.module = get_parent_module
    /\ call.action = "manage_default_system"
    /\ ret[1].value = "manage_default_system"

\* the codenames of all parent-module entries of a payload
AllParentCodenames(permissions_data) ==
    UNION { Codenames(EntriesOf(permissions_data)[i]) :
              i \in {j \in 1..Len(EntriesOf(permissions_data)) :
                       EntriesOf(permissions_data)[j].code = get_parent_module} }

NoSpecialParentPermission(permissions_data) ==
    /\ get_parent_permissions.MANAGE_SYSTEM \notin AllParentCodenames(permissions_data)
    /\ get_parent_permissions.VIEW_SYSTEM \notin AllParentCodenames(permissions_data)

\* the index of the first parent-module entry, 0 when there is none
FirstParent(permissions_data) ==
    LET idx == {j \in 1..Len(EntriesOf(permissions_data)) :
                  EntriesOf(permissions_data)[j].code = get_parent_module}
    IN  IF idx = {} THEN 0 ELSE CHOOSE i \in idx : \A j \in idx : i <= j

\* the occurrences <<entry, position>> of listed codenames
Occurrences(permissions_data) ==
    UNION { {<<i, j>> : j \in 1..Len(EntriesOf(permissions_data)[i].permissions)} :
              i \in 1..Len(EntriesOf(permissions_data)) }

\* the string an occurrence stands for: the codename under the parent
\* module, "m.c" under a child module m
ListedString(permissions_data, occ) ==
    LET e == EntriesOf(permissions_data)[occ[1]]
    IN  IF e.code = get_parent_module
        THEN e.permissions[occ[2]].codename
        ELSE e.code \o "." \o e.permissions[occ[2]].codename

\* the occurrences that count: all but those of later parent-module entries
Counted(permissions_data) ==
    { occ \in Occurrences(permissions_data) :
        EntriesOf(permissions_data)[occ[1]].code = get_parent_module
            => occ[1] = FirstParent(permissions_data) }

NothingRepeated(permissions_data) ==
    /\ Counted(permissions_data) = Occurrences(permissions_data)
    /\ \A o1, o2 \in Counted(permissions_data) :
          ListedString(permissions_data, o1) = ListedString(permissions_data, o2)
              => o1 = o2

\* C10 as claimed: without the special parent permissions the result is the
\* parent codenames plus the listed "m.c", and its size is the number of
\* listed codenames.
C10_SizeIsListedCount ==
    (Collected /\ WellFormed(call.permissions_data)
        /\ NoSpecialParentPermission(call.permissions_data))
        => /\ ~ret[1].raised
           /\ ret[1].value =
                { ListedString(call.permissions_data, occ) :
                    occ \in Occurrences(call.permissions_data) }
           /\ Cardinality(ret[1].value) = Cardinality(Occurrences(call.permissions_data))

\* C10: without the special parent permissions the result is the codenames of
\* the first parent-module entry plus the listed "m.c" of the child entries;
\* its size is at most the number of listed codenames, and equal to it
\* exactly when no listed string is repeated and no later parent-module
\* entry lists a codename.
C10_ExactlyListed ==
    (Collected /\ WellFormed(call.permissions_data)
        /\ NoSpecialParentPermission(call.permissions_data))
        => /\ ~ret[1].raised
           /\ ret[1].value =
                { ListedString(call.permissions_data, occ) :
                    occ \in Counted(call.permissions_data) }
           /\ Cardinality(ret[1].value) <= Cardinality(Occurrences(call.permissions_data))
           /\ (Cardinality(ret[1].value) = Cardinality(Occurrences(call.permissions_data))
                 <=> NothingRepeated(call.permissions_data))

\* a payload that lists the same codename twice under one child module and
\* twice the parent module was aggregated
C10_Witness ==
    /\ Collected
    /\ WellFormed(call.permissions_data)
    /\ NoSpecialParentPermission(call.permissions_data)
    /\ Len(EntriesOf(call.permissions_data)) = 2
    /\ ~NothingRepeated(call.permissions_data)
    /\ Cardinality(ret[1].value) < Cardinality(Occurrences(call.permissions_data))

\* the first parent-module entry of a payload, <<>> when the scan for it ends
\* without one or meets an entry without 'code' first
FirstParentEntry(permissions_data) ==
    LET es  == EntriesOf(permissions_data)
        idx == {i \in 1..Len(es) :
                  /\ \A j \in 1..i : "code" \in DOMAIN es[j]
                  /\ es[i].code = get_parent_module
                  /\ \A j \in 1..(i - 1) : es[j].code # get_parent_module}
    IN  IF idx = {} THEN <<>> ELSE <<es[CHOOSE i \in idx : TRUE]>>

\* the first parent-module entry lists the manage-system codename
ManageGranted(permissions_data) ==
    /\ FirstParentEntry(permissions_data) # <<>>
    /\ "manage_default_system" \in Codenames(FirstParentEntry(permissions_data)[1])

\* C11 as claimed: when the parent module's codenames contain the
\* manage-system codename, the result is the parent codenames plus "m.t" for
\* every configured child module m and child permission type t
\* ({A.view, A.add, A.change, A.delete, B.view, B.add, B.change, B.delete}).
C11_ManagePlainNames ==
    (Collected /\ WellFormed(call.permissions_data)
        /\ "manage_default_system" \in AllParentCodenames(call.permissions_data))
        => /\ ~ret[1].raised
           /\ ret[1].value =
                AllParentCodenames(call.permissions_data)
                \cup {m \o "." \o t : m \in {"A", "B"},
                                      t \in {"view", "add", "change", "delete"}}

\* C11: when the first parent-module entry of the payload lists the
\* manage-system codename, the result is exactly that entry's codenames plus
\* the qualified permission "m.t_m" of every configured child module m and
\* child permission type t; child entries and later entries of the payload
\* contribute nothing.
C11_ManageSystem ==
    (Collected /\ ManageGranted(call.permissions_data))
        => /\ ~ret[1].raised
           /\ ret[1].value =
                Codenames(FirstParentEntry(call.permissions_data)[1])
                \cup {"A.view_A", "A.add_A", "A.change_A", "A.delete_A",
                      "B.view_B", "B.add_B", "B.change_B", "B.delete_B"}

\* a payload with the manage-system codename and a child entry listing
\* "view" under A was aggregated: 8 synthesized permissions plus the parent
\* codename, and no "A.view" from the child entry
C11_Witness ==
    /\ Collected
    /\ ManageGranted(call.permissions_data)
    /\ \E i \in 1..Len(EntriesOf(call.permissions_data)) :
          /\ "code" \in DOMAIN EntriesOf(call.permissions_data)[i]
          /\ EntriesOf(call.permissions_data)[i].code = "A"
          /\ "view" \in Codenames(EntriesOf(call.permissions_data)[i])
    /\ ~ret[1].raised
    /\ "A.view" \notin ret[1].value
    /\ Cardinality(ret[1].value) = 9

\* the first parent-module entry lists the view-system codename and not the
\* manage-system codename
ViewGranted(permissions_data) ==
    /\ FirstParentEntry(permissions_data) # <<>>
    /\ "view_default_system" \in Codenames(FirstParentEntry(permissions_data)[1])
    /\ "manage_default_system" \notin Codenames(FirstParentEntry(permissions_data)[1])

\* the strings "m.c" of the codenames c a payload lists under a module m
\* other than the parent module
Listed(permissions_data) ==
    LET es == EntriesOf(permissions_data)
    IN  {p \in {es[i].code \o "." \o c : i \in 1..Len(es), c \in ChildCodenames} :
           \E i \in 1..Len(es) :
              /\ es[i].code # "SYS"
              /\ \E c \in Codenames(es[i]) : p = es[i].code \o "." \o c}

\* C21 as claimed: when the parent module's codenames contain the view-system
\* codename and not the manage-system codename, the result is the parent
\* codenames, the view permission "m.view" of every configured child module
\* m, and every "m.c" the payload lists under a child module.
C21_ViewPlainNames ==
    (Collected /\ WellFormed(call.permissions_data)
        /\ "view_default_system" \in AllParentCodenames(call.permissions_data)
        /\ "manage_default_system" \notin AllParentCodenames(call.permissions_data))
        => /\ ~ret[1].raised
           /\ ret[1].value =
                AllParentCodenames(call.permissions_data)
                \cup {"A.view", "B.view"}
                \cup Listed(call.permissions_data)

\* C21: when the first parent-module entry of a well-formed payload lists the
\* view-system codename and not the manage-system codename, the result is
\* exactly that entry's codenames, the view permission "m.view_m" of every
\* configured child module m, and every "m.c" the payload lists under a
\* child module: the view grant adds the two view permissions to what the
\* payload lists and removes nothing.
C21_ViewSystem ==
    (Collected /\ WellFormed(call.permissions_data) /\ ViewGranted(call.permissions_data))
        => /\ ~ret[1].raised
           /\ ret[1].value =
                Codenames(FirstParentEntry(call.permissions_data)[1])
                \cup {"A.view_A", "B.view_B"}
                \cup Listed(call.permissions_data)

\* a payload with the view-system codename and a child entry listing "view"
\* under A was aggregated: the listed "A.view" and both synthesized view
\* permissions are in the result
C21_Witness ==
    /\ Collected
    /\ WellFormed(call.permissions_data)
    /\ ViewGranted(call.permissions_data)
    /\ "A.view" \in Listed(call.permissions_data)
    /\ ~ret[1].raised
    /\ {"A.view", "A.view_A", "B.view_B", "view_default_system"} \subseteq ret[1].value
    /\ "A.add_A" \notin ret[1].value

\* ------------------------------------------------------------------------
\* Properties of the cache facade (SpecCache)
\* ------------------------------------------------------------------------
\* the last facade call is a call of fn
FacadeDid(fn) == fac # <<>> /\ fac[1].fn = fn

\* the call before the last one was fn on the same key argument, and it
\* returned without raising
JustAfter(fn) ==
    /\ fac[1].prev # <<>>
    /\ fac[1].prev[1].fn = fn
    /\ fac[1].prev[1].arg = fac[1].arg
    /\ ~fac[1].prev[1].raised

\* the get that follows a successful set of v returns v; the get that follows
\* the invalidation reports absent (the backend answering the get)
RoundTrip(set_fn, get_fn, invalidate_fn) ==
    (FacadeDid(get_fn) /\ fac[1].ok) =>
        /\ (JustAfter(set_fn) /\ fac[1].prev[1].returned = "True")
              => (fac[1].returned = "value" /\ fac[1].value = fac[1].prev[1].given)
        /\ JustAfter(invalidate_fn) => fac[1].returned = "None"

\* C12: in the token domain and in the permissions domain, a set of v under
\* k followed immediately by a get of k returns v unchanged, and a get that
\* follows the invalidation of k reports absent, whichever backing store the
\* facade selected.
C12_RoundTrip ==
    /\ RoundTrip("set_token_verification_cache", "get_token_verification_cache",
                 "invalidate_token_cache")
    /\ RoundTrip("set_user_permissions_cache", "get_user_permissions_cache",
                 "invalidate_user_cache")

\* the entry a successful set leaves under its key
EntryOfSet(default_ttl) ==
    <<[ value   |-> fac[1].given[1],
        timeout |-> IF fac[1].timeout # 0 THEN fac[1].timeout ELSE default_ttl ]>>

\* a set call returns True exactly when the backing store's set succeeded, it
\* never raises, a failed set leaves the store as it was and a successful set
\* on the Django cache leaves the value under the key with the timeout
SetNeverRaises(set_fn, key, default_ttl) ==
    FacadeDid(set_fn) =>
        /\ ~fac[1].raised
        /\ fac[1].returned = Bool(fac[1].ok)
        /\ ~fac[1].ok => store = fac[1].before
        /\ (fac[1].ok /\ backend = "django") =>
              store = [fac[1].before EXCEPT ![key] = EntryOfSet(default_ttl)]

\* C15: set_token_verification_cache and set_user_permissions_cache never
\* raise: they return False when the backing store's set fails, leaving the
\* store unchanged, and True when it succeeds.
C15_SetNeverRaises ==
    /\ SetNeverRaises("set_token_verification_cache",
                      get_token_cache_key(fac[1].arg), 300)
    /\ SetNeverRaises("set_user_permissions_cache",
                      get_permissions_cache_key(fac[1].arg), 300)

\* a token set met a failing backend while an entry was cached under the
\* key: it returned False and the entry is still there
C15_Witness ==
    /\ FacadeDid("set_token_verification_cache")
    /\ ~fac[1].ok
    /\ fac[1].returned = "False"
    /\ fac[1].before[get_token_cache_key(fac[1].arg)] # <<>>
    /\ store = fac[1].before

\* invalidate_user_cache(u), the backend answering, removes the user-data
\* entry and the permissions entry of u and nothing else
InvalidateUserFrame ==
    (FacadeDid("invalidate_user_cache") /\ fac[1].ok) =>
        /\ ~fac[1].raised
        /\ store = [fac[1].before EXCEPT ![get_user_cache_key(fac[1].arg)] = <<>>,
                                         ![get_permissions_cache_key(fac[1].arg)] = <<>>]

\* the call before the last one was invalidate_user_cache(u), which returned
InvalidatedUser(u) ==
    /\ fac[1].prev # <<>>
    /\ fac[1].prev[1].fn = "invalidate_user_cache"
    /\ fac[1].prev[1].arg = u
    /\ ~fac[1].prev[1].raised

\* C16: invalidate_user_cache(u) removes exactly the user-data entry and the
\* permissions entry keyed by u and leaves every token-cache entry unchanged;
\* a token cached for user u still resolves from the token cache after
\* invalidate_user_cache(u).
C16_TokenSurvivesInvalidate ==
    /\ InvalidateUserFrame
    /\ (FacadeDid("get_token_verification_cache") /\ fac[1].ok) =>
          \A u \in UserIds :
              (/\ InvalidatedUser(u)
               /\ store[get_token_cache_key(fac[1].arg)] # <<>>
               /\ store[get_token_cache_key(fac[1].arg)][1].value.id = u)
              => /\ fac[1].returned = "value"
                 /\ fac[1].value = <<store[get_token_cache_key(fac[1].arg)][1].value>>

\* ------------------------------------------------------------------------
\* Properties of token resolution (SpecAuth)
\* ------------------------------------------------------------------------
\* a resolution of a request that carries a token has ended, the backing
\* store answering
ResolutionDone ==
    /\ auth # <<>>
    /\ auth[1].phase = "returned"
    /\ ~FalsyStr(auth[1].token)
    /\ auth[1].args.env.backend_ok

\* the resolution went through SSOAuthentication._get_user_from_token
ResolverDone == ResolutionDone /\ auth[1].args.entry = "authenticate"

\* the remote requests of a kind among those the resolution sent
CallsOfKind(kind) == {i \in 1..Len(auth[1].calls) : auth[1].calls[i].kind = kind}

\* C13: when the token is not cached and the remote verify endpoint answers
\* 401 with code token_expired, _get_user_from_token fails with
\* TokenExpiredError, not with another outcome.
C13_ExpiredIsDistinct ==
    (ResolverDone /\ auth[1].cached = <<>>
        /\ auth[1].args.env.verify = [status |-> 401, body |-> [code |-> "token_expired"]])
        => auth[1].resolver = "TokenExpiredError"

\* C14: when the remote verify call fails at transport level,
\* _get_user_from_token fails with SSOServiceUnavailableError, distinct from
\* TokenError and TokenExpiredError.
C14_TransportIsUnavailable ==
    (ResolverDone /\ auth[1].cached = <<>> /\ auth[1].args.env.verify.status = 0)
        => auth[1].resolver = "SSOServiceUnavailableError"

\* C17: a resolution of an uncached token t that the remote verifies (200)
\* sends the verify request and leaves the identity it returns in the token
\* cache under t with the token TTL; a resolution of a cached token returns
\* the cached identity and sends no verify request.
C17_VerifiedIsCached ==
    /\ (ResolutionDone /\ auth[1].cached = <<>> /\ auth[1].args.env.verify.status = 200)
          => /\ CallsOfKind("verify") # {}
             /\ auth[1].set = "user"
             /\ auth[1].stored = <<[value |-> auth[1].user[1], timeout |-> 300]>>
    /\ (ResolutionDone /\ auth[1].cached # <<>>)
          => /\ auth[1].set = "user"
             /\ auth[1].user = <<auth[1].cached[1].value>>
             /\ CallsOfKind("verify") = {}

\* C19: a token resolution sends at most one verify request and at most one
\* permissions request, whatever the remote answers, and ends in an identity
\* or in one of the typed failures TokenError, TokenExpiredError,
\* SSOServiceUnavailableError.
C19_AtMostOneCall ==
    /\ ResolutionDone =>
          /\ Cardinality(CallsOfKind("verify")) <= 1
          /\ Cardinality(CallsOfKind("permissions")) <= 1
    /\ ResolverDone =>
          auth[1].resolver \in {"user", "TokenError", "TokenExpiredError",
                                "SSOServiceUnavailableError"}

\* no resolution sends a remote request more than once
AtMostOneCallEach ==
    (auth # <<>> /\ auth[1].phase = "returned") =>
        /\ Cardinality(CallsOfKind("verify")) <= 1
        /\ Cardinality(CallsOfKind("permissions")) <= 1

\* the remote answered the verification with a status other than 200 and
\* without the expiry signal (401 with code token_expired)
RejectedWithoutExpiry(verify) ==
    /\ verify.status \notin {0, 200}
    /\ ~(verify.status = 401 /\ DictGet(verify.body, "code", None) = "token_expired")

\* the middleware's resolution of a request on an API path, whose failures
\* are answered with a JSON body carrying the error code
MiddlewareApiDone ==
    /\ ResolutionDone
    /\ auth[1].args.entry = "middleware"
    /\ StartsWith(auth[1].args.request.path, "/api/")

\* C22: when the token is not cached and the remote verify endpoint answers
\* with a non-200 status that does not carry the expiry signal,
\* _get_user_from_token fails with TokenError (not TokenExpiredError) and
\* the middleware answers an API request with 401 and code token_invalid.
C22_NonExpiryIsInvalid ==
    /\ (ResolverDone /\ auth[1].cached = <<>>
          /\ RejectedWithoutExpiry(auth[1].args.env.verify))
          => auth[1].resolver = "TokenError"
    /\ (MiddlewareApiDone /\ auth[1].cached = <<>>
          /\ RejectedWithoutExpiry(auth[1].args.env.verify))
          => auth[1].result = "json_401_token_invalid"

\* every identity in the token cache carries the token whose key it is under
EntriesCarryToken ==
    \A t \in Tokens :
        store[get_token_cache_key(t)] # <<>>
            => store[get_token_cache_key(t)][1].value.token = t

\* C25: every identity stored under the key of token t carries token = t: a
\* resolution of an uncached token t that the remote verifies, on either
\* path, leaves under t's key an identity whose token is t, and a resolution
\* of a cached token restores an identity with a non-empty token.
C25_StoredCarriesToken ==
    /\ EntriesCarryToken
    /\ (ResolutionDone /\ auth[1].cached = <<>> /\ auth[1].args.env.verify.status = 200)
          => /\ auth[1].stored # <<>>
             /\ auth[1].stored[1].value.token = auth[1].token
    /\ (ResolutionDone /\ auth[1].cached # <<>>)
          => /\ auth[1].user # <<>>
             /\ auth[1].user[1].token \notin {None, ""}

\* a resolution changes the store only when the remote answered 200 to the
\* verification or to the permissions request
NoNegativeWrite ==
    (auth # <<>> /\ auth[1].phase = "returned" /\ auth[1].wrote)
        => \/ auth[1].args.env.verify.status = 200
           \/ auth[1].args.env.remote.status = 200

\* C26: a resolution writes the token cache only after a 200 verify answer
\* and the permissions cache only after a 200 permissions answer; a
\* resolution of an uncached token whose verification fails (401, another
\* status, transport error) contacts the remote and leaves no entry under
\* the token, so that the next resolution contacts the remote again.
C26_NegativesNotCached ==
    /\ NoNegativeWrite
    /\ (ResolutionDone /\ auth[1].cached = <<>> /\ auth[1].args.env.verify.status # 200)
          => /\ auth[1].stored = <<>>
             /\ CallsOfKind("verify") # {}

\* the middleware ended on a request that is not exempt and carries a token
MiddlewareTokenDone ==
    /\ auth # <<>>
    /\ auth[1].phase = "returned"
    /\ auth[1].args.entry = "middleware"
    /\ ~FalsyStr(auth[1].token)

\* the responses to a request whose verification failed
Rejections(path) ==
    IF StartsWith(path, "/api/")
    THEN {"json_401_token_expired", "json_401_token_invalid",
          "json_503_sso_service_error", "json_500_auth_error"}
    ELSE {"redirect_sso"}

\* C27: for a request that is not exempt and carries a token, the middleware
\* invokes the downstream handler only with request.user set from a
\* token-cache hit or from a 200 verify answer; otherwise (a 401, another
\* status, a transport error, any other exception) the handler is not
\* invoked, request.user is the anonymous user and the response is a
\* redirect on a non-API path and a 401, 503 or 500 JSON error on an API
\* path.
C27_HandlerOnlyForVerified ==
    MiddlewareTokenDone =>
        /\ auth[1].result = "handler"
              => /\ auth[1].set = "user"
                 /\ \/ auth[1].cached # <<>> /\ auth[1].user = <<auth[1].cached[1].value>>
                    \/ auth[1].cached = <<>> /\ auth[1].args.env.verify.status = 200
        /\ (auth[1].cached = <<>> /\ auth[1].args.env.verify.status # 200)
              => auth[1].result # "handler"
        /\ auth[1].result # "handler"
              => /\ auth[1].set = "anonymous"
                 /\ auth[1].user = <<>>
                 /\ auth[1].result \in Rejections(auth[1].args.request.path)

\* the middleware met an exception on an API request whose token the remote
\* would verify: it answered 500 without invoking the handler
C27_Witness ==
    /\ MiddlewareTokenDone
    /\ auth[1].args.request.path = "/api/x"
    /\ auth[1].args.env.verify.status = 200
    /\ auth[1].result = "json_500_auth_error"
    /\ auth[1].set = "anonymous"
    /\ auth[1].calls = <<>>

\* a resolution has ended on a request that no rule of the middleware exempts
NonExemptDone ==
    /\ auth # <<>>
    /\ auth[1].phase = "returned"
    /\ auth[1].args.request.path \in {"/api/x", "/page"}

\* the token the other layer extracts from the request of the resolution
OtherLayerToken ==
    IF auth[1].args.entry = "authenticate"
    THEN MiddlewareToken(auth[1].args.request)
    ELSE _get_token_from_request(auth[1].args.request)

\* C28: the token a layer extracts from a request is the token the other
\* layer extracts from the same request, also when the request carries a
\* cookie and an 'Authorization: Bearer' header with different tokens.
C28_SameToken ==
    NonExemptDone => auth[1].token = OtherLayerToken

\* ------------------------------------------------------------------------
\* Caching of fetched payloads by the gate (Spec)
\* ------------------------------------------------------------------------
\* C18: a check for a non-superuser with an id and a token whose payload is
\* not cached, the remote answering 200, sends one permissions request and
\* leaves the raw payload in the permissions cache under the user's id with
\* the permissions TTL; a check for a user whose payload is cached sends no
\* permissions request.
C18_FetchedIsCached ==
    /\ (MemberCall /\ BackendUp /\ Required # <<>> /\ chk[1].cached = <<>>
          /\ HasTruthyAttr(chk[1].args.user, "id")
          /\ ~FalsyStr(SelectToken(EffectiveRequest))
          /\ chk[1].args.env.remote.status = 200)
          => /\ Len(chk[1].calls) = 1
             /\ chk[1].stored = <<[ value   |-> chk[1].args.env.remote.body,
                                    timeout |-> PERMISSIONS_CACHE_TTL ]>>
    /\ (MemberCall /\ BackendUp /\ Required # <<>> /\ TruthyData(chk[1].cached))
          => /\ chk[1].calls = <<>>
             /\ chk[1].result \in {"True", "False"}

\* the token the priority order names for the call: the identity's stored
\* token if non-empty, else the Authorization header without a leading
\* "Bearer ", else the auth_access_token cookie
PriorityToken ==
    LET user   == chk[1].args.user
        header == DictGet(EffectiveRequest.headers, "Authorization", None)
        cookie == DictGet(EffectiveRequest.COOKIES, "auth_access_token", None)
    IN  IF "token" \in DOMAIN user /\ user.token \notin {None, ""}
        THEN user.token
        ELSE IF header \notin {None, ""}
        THEN IF StartsWith(header, "Bearer ") THEN SubSeq(header, 8, Len(header))
             ELSE header
        ELSE cookie

\* a check of a non-superuser with an id that requires a permission and
\* found no payload cached, the backing store answering
MissedCall ==
    /\ MemberCall
    /\ BackendUp
    /\ Required # <<>>
    /\ chk[1].cached = <<>>
    /\ HasTruthyAttr(chk[1].args.user, "id")

\* C23: on a permissions-cache miss the check sends one permissions request,
\* and the Bearer credential of that request is the identity's stored token
\* if non-empty, else the Authorization header of the call context without
\* a leading "Bearer ", else the auth_access_token cookie.
C23_TokenPriority ==
    (MissedCall /\ ~FalsyStr(PriorityToken))
        => chk[1].calls = <<[user_id |-> chk[1].args.user.id, token |-> PriorityToken]>>

\* the token the code selects from the call's sources is the one the
\* priority order names
SelectionFollowsPriority ==
    (Done /\ ~IsNoUser(chk[1].args.user)) => SelectToken(EffectiveRequest) = PriorityToken

\* the cache keys derived from the id None
NoneKeys == {get_permissions_cache_key(None), get_user_cache_key(None)}

\* a check that requires a permission, for an authenticated non-superuser
\* whose id is None or empty
NoIdCall ==
    /\ MemberCall
    /\ Required # <<>>
    /\ ("id" \notin DOMAIN chk[1].args.user \/ chk[1].args.user.id \in {None, ""})

\* C24: no identity whose id is None is stored in a cache and no key derived
\* from a None id holds an entry; a check for a non-superuser whose id is
\* None reads no cache key, writes nothing, sends no permissions request and
\* returns False.
C24_NoneIdUntouched ==
    /\ \A k \in NoneKeys : store[k] = <<>>
    /\ \A t \in Tokens : store[get_token_cache_key(t)] # <<>>
                            => store[get_token_cache_key(t)][1].value.id # None
    /\ NoIdCall => /\ chk[1].reads = {}
                   /\ ~chk[1].wrote
                   /\ chk[1].calls = <<>>
                   /\ chk[1].result = "False"

\* a check for a non-superuser whose id is None sends no request, writes
\* nothing and does not return True
NoneIdNeverFetched ==
    NoIdCall => /\ ~chk[1].wrote
                /\ chk[1].calls = <<>>
                /\ chk[1].result # "True"

\* ------------------------------------------------------------------------
\* Properties of the concurrent checks (SpecWorkers)
\* ------------------------------------------------------------------------
\* worker w ended a check of a non-superuser that found no entry in the
\* store, the backing store answering
MissedCheck(w) ==
    /\ wk[w].pc = "done"
    /\ ~Superuser(wk[w].args[1].user)
    /\ wk[w].missed
    /\ wk[w].args[1].env.backend_ok

\* the remote answered worker w with a payload that aggregates
Answered(w) ==
    /\ wk[w].args[1].env.remote.status = 200
    /\ ~_collect_module_permissions(wk[w].args[1].env.remote.body).raised

\* the decision that aggregating payload p gives for the check of worker w
DecisionFrom(p, w) ==
    Bool(AllFormattedIn(wk[w].args[1].module, AsList(wk[w].args[1].permissions),
                        _collect_module_permissions(p).value))

\* C20: when two workers check the same non-superuser concurrently and both
\* miss the permissions cache, each fetches and decides by the payload it
\* fetched itself, the cache ends with the payload written last, no worker
\* returns True without a fetched payload that justifies it, and no worker
\* is ever blocked.
C20_ConcurrentMisses ==
    /\ \A w \in Workers :
          /\ wk[w].pc \notin {"idle", "done"} => ENABLED WorkerStep(w)
          /\ (MissedCheck(w) /\ wk[w].result = "True")
                => \E v \in Workers :
                      /\ wk[v].fetched # <<>>
                      /\ DecisionFrom(wk[v].fetched[1], w) = "True"
          /\ (MissedCheck(w) /\ Answered(w))
                => /\ wk[w].fetched = <<wk[w].args[1].env.remote.body>>
                   /\ wk[w].calls = 1
                   /\ wk[w].result = DecisionFrom(wk[w].fetched[1], w)
    /\ (\A w \in Workers : MissedCheck(w) /\ Answered(w))
          => \E w \in Workers :
                /\ wk[w].last
                /\ store[get_permissions_cache_key("1")] # <<>>
                /\ store[get_permissions_cache_key("1")][1].value = wk[w].fetched[1]

\* no worker is blocked and no worker allows without a justifying payload
NoStrayAllow ==
    \A w \in Workers :
        /\ wk[w].pc \notin {"idle", "done"} => ENABLED WorkerStep(w)
        /\ (MissedCheck(w) /\ wk[w].result = "True")
              => \E v \in Workers :
                    /\ wk[v].fetched # <<>>
                    /\ DecisionFrom(wk[v].fetched[1], w) = "True"

\* ------------------------------------------------------------------------
\* Properties of the process-wide session (SpecSession)
\* ------------------------------------------------------------------------
\* the sessions the workers hold from their calls of get_sso_session
Held == UNION {{wk[w].got[i] : i \in 1..Len(wk[w].got)} : w \in SessionWorkers}

\* C29: under every interleaving of the workers' calls of get_sso_session at
\* most one session object is created in the process, and every call
\* returns that one object.
C29_OneSession ==
    /\ Cardinality(sessions) <= 1
    /\ Cardinality(Held) <= 1
    /\ \A w \in SessionWorkers : wk[w].pc = "done" => wk[w].got # <<>>

\* every call returns a session that was created
ReturnsASession ==
    \A w \in SessionWorkers :
        wk[w].pc = "done" => /\ wk[w].got # <<>>
                             /\ wk[w].got[1] \in sessions

\* ------------------------------------------------------------------------
\* Properties of the request context (SpecLogging)
\* ------------------------------------------------------------------------
\* worker w has finished a request
Handled(w) == wk[w].pc = "returned"

\* what a ContextLogger gets from an empty context
NoContextInfo == [user |-> "system", request_id |-> "-", ip |-> "-"]

\* C30: after the middleware finishes a request it does not skip, whether
\* the downstream handler returned or raised, the worker's context is empty;
\* so the handler of a skipped request gets no request_id, user or ip from
\* the context, and the handler of a request that is not skipped gets those
\* of its own request.
C30_ContextNeverLeaks ==
    \A w \in LogWorkers :
        /\ (Handled(w) /\ ~_should_skip(wk[w].request.path))
              => /\ get_request_context(_request_context[w]) = EmptyDict
                 /\ wk[w].seen = [ user       |-> _get_username(wk[w].request),
                                   request_id |-> wk[w].request_id,
                                   ip         |-> _get_client_ip(wk[w].request) ]
        /\ (Handled(w) /\ _should_skip(wk[w].request.path))
              => wk[w].seen = NoContextInfo

\* the context is empty after every request whose handler returned, and a
\* context belongs to the worker that set it
ClearedOnReturn ==
    \A w \in LogWorkers :
        /\ (Handled(w) /\ ~_should_skip(wk[w].request.path) /\ ~wk[w].raised)
              => get_request_context(_request_context[w]) = EmptyDict
        /\ (Handled(w) /\ ~_should_skip(wk[w].request.path))
              => wk[w].seen.request_id = wk[w].request_id

====
